---- MODULE Spec2Model ----
(***************************************************************************)
(* Folio (src/folio/app.py): a REST service that keeps pathogens, projects *)
(* and studies in a relational store, resolves permissions by exchanging   *)
(* the caller's bearer token for RPT permissions at Keycloak, and          *)
(* provisions Keycloak resources/groups and a SONG study on creation.      *)
(*                                                                         *)
(* Strings that the code formats, splits or tests with startswith are      *)
(* sequences of atoms (<<"folio", ".", "READ">> is "folio.READ"), so that  *)
(* concatenation is \o and a prefix test is a test on a sub-sequence.      *)
(* Strings that are only compared are TLA+ strings.                        *)
(***************************************************************************)
EXTENDS Integers, Sequences, FiniteSets, TLC

VARIABLES
    last,          \* the last completed request: its inputs, the guard's
                   \* decision, the HTTP status and the response body
    calls,         \* the outbound calls and store operations of that request,
                   \* in the order the handling thread issued them
    pathogens,     \* committed rows of table pathogens
    projects,      \* committed rows of table projects
    studies,       \* committed rows of table studies
    kc_resources,  \* Keycloak: names of the registered UMA resources
    kc_groups,     \* Keycloak: names of the groups
    kc_members,    \* Keycloak: <<group name, username>> memberships
    song_studies,  \* SONG: ids of the registered studies
    kc_policy,     \* Keycloak: the scopes of resource 'folio' its policies
                   \* grant the realm user now, and those it has withdrawn
    inflight       \* requests that are being handled concurrently: for each
                   \* worker thread, where its handler stands and the rows
                   \* its open transaction has inserted

vars == <<last, calls, pathogens, projects, studies,
          kc_resources, kc_groups, kc_members, song_studies, kc_policy,
          inflight>>

storeVars == <<pathogens, projects, studies>>
downstreamVars ==
    <<kc_resources, kc_groups, kc_members, song_studies, kc_policy>>

-----------------------------------------------------------------------------
(* Bounds of the model *)

MaxHeaderLen == 3   \* atoms in an Authorization header value
MaxPerms     == 2   \* permission objects in an RPT answer
MaxScopes    == 2   \* scopes in one permission object
MaxRequired  == 2   \* scopes in the list given to require_permissions

SeqUpTo(S, n) == UNION {[1..k -> S] : k \in 0..n}

-----------------------------------------------------------------------------
(* Python helpers *)

\* dict.get(key, default)
DictGet(d, key, default) == IF key \in DOMAIN d THEN d[key] ELSE default

\* str.startswith(prefix)
startswith(s, prefix) ==
    /\ Len(s) >= Len(prefix)
    /\ SubSeq(s, 1, Len(prefix)) = prefix

\* str.split(sep): one more piece than there are separators, empty pieces kept
RECURSIVE split(_, _)
split(s, sep) ==
    IF s = <<>> THEN << <<>> >>
    ELSE LET rest == split(Tail(s), sep) IN
         IF Head(s) = sep
         THEN << <<>> >> \o rest
         ELSE << <<Head(s)>> \o Head(rest) >> \o Tail(rest)

\* the value None where a string is expected
None == "None"

\* values get_rpt_permissions can return: a list, or the empty dict of a
\* 200 answer whose JSON body is {}
PyList(items) == [py |-> "list", items |-> items]
PyEmptyDict   == [py |-> "dict", items |-> <<>>]

\* Python truth value of such a value
Truthy(v) == v.items # <<>>

-----------------------------------------------------------------------------
(* The environment of the permission resolver *)

\* the Authorization header: absent, or a value made of these atoms
HeaderAtoms == {"Bearer", " ", "jwtAlice", "opaque"}

NoHeader == [present |-> FALSE, value |-> <<>>]

Headers ==
    {NoHeader} \cup
    {[present |-> TRUE, value |-> v] : v \in SeqUpTo(HeaderAtoms, MaxHeaderLen)}

\* resource names and scope names Keycloak can grant
RsNames    == {<<"folio">>, <<"project-alpha">>}
ScopeNames == {<<"READ">>, <<"WRITE">>}

\* one permission object of an RPT answer; 'rsname' or 'scopes' may be absent
PermissionObjects ==
    {[rsname |-> r, scopes |-> s] :
        r \in RsNames, s \in SeqUpTo(ScopeNames, MaxScopes)}
    \cup {[rsname |-> <<"folio">>]}
    \cup {[scopes |-> << <<"READ">> >>]}

\* JSON bodies of a 200/207 answer: an array of permission objects, the
\* object {}, null, or a body that is not JSON
JsonList(items) == [json |-> "list", items |-> items]
JsonOther(k)    == [json |-> k, items |-> <<>>]

RptBodies ==
    {JsonList(p) : p \in SeqUpTo(PermissionObjects, MaxPerms)}
    \cup {JsonOther("object"), JsonOther("null"), JsonOther("invalid")}

\* answers of the token endpoint to the UMA-ticket exchange
RptSuccessStatus == {200, 207}
RptFailureStatus == {401, 403, 500}

NoExchange == [kind |-> "none", status |-> 0, body |-> JsonOther("none")]

RptResponses ==
    {[kind |-> "http", status |-> st, body |-> b] :
        st \in RptSuccessStatus, b \in RptBodies}
    \cup {[kind |-> "http", status |-> st, body |-> JsonOther("error")] :
        st \in RptFailureStatus}
    \cup {[kind |-> "transport_error", status |-> 0, body |-> JsonOther("none")]}

\* the scopes of a set, in the order Keycloak lists them
RECURSIVE scope_list(_, _)
scope_list(names, scopes) ==
    IF names = <<>> THEN <<>>
    ELSE (IF Head(names) \in scopes THEN <<Head(names)>> ELSE <<>>)
             \o scope_list(Tail(names), scopes)

\* the answers of the token endpoint to the exchange of a realm user's token
\* while the policies grant the scopes: the permission on 'folio'; with no
\* scope granted an empty list or the refusal 403
rpt_answers(scopes) ==
    IF scopes = {}
    THEN {[kind |-> "http", status |-> 200, body |-> JsonList(<<>>)],
          [kind |-> "http", status |-> 403, body |-> JsonOther("error")]}
    ELSE {[kind |-> "http", status |-> 200,
           body |-> JsonList(<<[rsname |-> <<"folio">>,
                                scopes |-> scope_list(<< <<"READ">>,
                                              <<"WRITE">> >>, scopes)]>>)]}

\* jwt.decode(token, options={"verify_signature": False}): the claims of a
\* well-formed JWT, or an exception for anything else
jwt_decode(token) ==
    IF token = <<"jwtAlice">>
    THEN [ok |-> TRUE,
          claims |-> [preferred_username |-> "alice",
                      email |-> "alice@example.org",
                      sub |-> "sub-alice",
                      azp |-> "dms"]]
    ELSE [ok |-> FALSE, claims |-> [x \in {} |-> None]]

\* the outbound call of get_rpt_permissions
RptCall(token) == [sys |-> "keycloak", op |-> "rpt_exchange", arg |-> token]

-----------------------------------------------------------------------------
(* Permission resolver *)

get_rpt_permissions(resp) ==
    IF resp.kind # "http" THEN PyList(<<>>)               \* except: return []
    ELSE IF resp.status \in {200, 207} THEN
        CASE resp.body.json = "list"    -> PyList(resp.body.items)
          [] resp.body.json = "object"  -> PyEmptyDict
          [] resp.body.json = "null"    -> PyList(<<>>)   \* len(None) raises
          [] OTHER                      -> PyList(<<>>)   \* json() raises
    ELSE PyList(<<>>)                                     \* return []

RECURSIVE add_scopes(_, _, _)
add_scopes(rsname, scopes, granted_scopes) ==
    IF scopes = <<>> THEN granted_scopes
    ELSE add_scopes(rsname, Tail(scopes),
                    granted_scopes \cup {rsname \o <<".">> \o Head(scopes)})

\* a resolver that reads only the first permission object of the answer
extract_scopes_first_only(permissions) ==
    IF permissions = <<>> THEN {}
    ELSE add_scopes(DictGet(Head(permissions), "rsname", <<>>),
                    DictGet(Head(permissions), "scopes", <<>>), {})

RECURSIVE extract_scopes_loop(_, _)
extract_scopes_loop(permissions, granted_scopes) ==
    IF permissions = <<>> THEN granted_scopes
    ELSE LET permission == Head(permissions)
             rsname == DictGet(permission, "rsname", <<>>)
             scopes == DictGet(permission, "scopes", <<>>)
         IN  extract_scopes_loop(Tail(permissions),
                                 add_scopes(rsname, scopes, granted_scopes))

extract_scopes_from_rpt(permissions) == extract_scopes_loop(permissions, {})

NoPayload == [valid |-> FALSE, payload |-> [x \in {} |-> None]]

\* a validation that also fails when the token cannot be decoded locally
validate_jwt_token_decoding(token, resp) ==
    LET rpt_permissions == get_rpt_permissions(resp)
        decoded == jwt_decode(token)
        base == [rpt_permissions |-> rpt_permissions.items,
                 granted_scopes |-> extract_scopes_from_rpt(rpt_permissions.items)]
    IN  IF \/ ~Truthy(rpt_permissions) /\ rpt_permissions # PyList(<<>>)
           \/ ~decoded.ok
        THEN NoPayload
        ELSE [valid |-> TRUE, payload |-> decoded.claims @@ base]

validate_jwt_token(token, resp) ==
    LET rpt_permissions == get_rpt_permissions(resp)
        decoded == jwt_decode(token)
        base == [rpt_permissions |-> rpt_permissions.items,
                 granted_scopes |-> extract_scopes_from_rpt(rpt_permissions.items)]
        claims == [k \in {"preferred_username", "email", "name", "sub",
                          "iss", "azp", "aud"} |->
                      DictGet(decoded.claims, k, None)]
    IN  IF ~Truthy(rpt_permissions) /\ rpt_permissions # PyList(<<>>)
        THEN NoPayload
        ELSE [valid |-> TRUE,
              payload |-> IF decoded.ok THEN claims @@ base ELSE base]

extract_user_info(payload) ==
    LET granted_scopes == DictGet(payload, "granted_scopes", {})
    IN  [username |-> DictGet(payload, "preferred_username", "unknown"),
         email |-> DictGet(payload, "email", None),
         name |-> DictGet(payload, "name", None),
         sub |-> DictGet(payload, "sub", None),
         iss |-> DictGet(payload, "iss", None),
         client_id |-> DictGet(payload, "azp", DictGet(payload, "aud", None)),
         permissions |-> granted_scopes,
         rpt_permissions |-> DictGet(payload, "rpt_permissions", <<>>),
         folio_permissions |->
             {scope \in granted_scopes : startswith(scope, <<"folio", ".">>)}]

-----------------------------------------------------------------------------
(* Authorization guards *)

\* "if not auth_header or not auth_header.startswith('Bearer ')" is false
has_bearer(header) ==
    /\ header.present
    /\ header.value # <<>>
    /\ startswith(header.value, <<"Bearer", " ">>)

\* auth_header.split(' ')[1]
bearer_token(header) == split(header.value, " ")[2]

NoUser == extract_user_info([x \in {} |-> None])

\* what a guard decided: status 0 means that the wrapped function is called
\* with g.user and g.token bound
GuardReject(status, error, missing, user_info, resolved, sent) ==
    [passed |-> FALSE, status |-> status, error |-> error,
     missing |-> missing,
     user_permissions |-> user_info.permissions,
     rpt_permissions |-> user_info.rpt_permissions,
     g_user |-> NoUser, g_token |-> <<>>,
     resolved |-> resolved, calls |-> sent]

GuardPass(user_info, token, resolved, sent) ==
    [passed |-> TRUE, status |-> 0, error |-> "",
     missing |-> <<>>,
     user_permissions |-> user_info.permissions,
     rpt_permissions |-> user_info.rpt_permissions,
     g_user |-> user_info, g_token |-> token,
     resolved |-> resolved, calls |-> sent]

authenticate_token(header, resp) ==
    IF ~has_bearer(header)
    THEN GuardReject(401, "No token provided", <<>>, NoUser, NoPayload, <<>>)
    ELSE LET token == bearer_token(header)
             payload == validate_jwt_token(token, resp)
         IN  IF ~payload.valid
             THEN GuardReject(401, "Invalid token", <<>>, NoUser, payload,
                              <<RptCall(token)>>)
             ELSE GuardPass(extract_user_info(payload.payload), token, payload,
                            <<RptCall(token)>>)

\* scope if scope.startswith('folio.') else f'folio.{scope}'
formatted_scope(scope) ==
    IF startswith(scope, <<"folio", ".">>) THEN scope
    ELSE <<"folio", ".">> \o scope

\* a guard that is satisfied by any one of the required scopes (OR)
missing_scopes_any(required_scopes, user_permissions, missing_scopes) ==
    IF \E i \in 1..Len(required_scopes) :
           formatted_scope(required_scopes[i]) \in user_permissions
    THEN <<>>
    ELSE [i \in 1..Len(required_scopes) |-> formatted_scope(required_scopes[i])]

RECURSIVE missing_scopes_loop(_, _, _)
missing_scopes_loop(required_scopes, user_permissions, missing_scopes) ==
    IF required_scopes = <<>> THEN missing_scopes
    ELSE LET fs == formatted_scope(Head(required_scopes))
         IN  missing_scopes_loop(Tail(required_scopes), user_permissions,
                 IF fs \notin user_permissions
                 THEN Append(missing_scopes, fs)
                 ELSE missing_scopes)

\* a guard that decides on the scopes an earlier exchange returned, the
\* withdrawn ones included
require_permissions_remembered(required_scopes, header, resp) ==
    IF ~has_bearer(header)
    THEN GuardReject(401, "No token provided", <<>>, NoUser, NoPayload, <<>>)
    ELSE LET token == bearer_token(header)
             remembered ==
                 IF resp.kind = "http" /\ resp.status = 200
                 THEN CHOOSE answer \in rpt_answers(kc_policy.granted
                                                       \cup kc_policy.revoked) :
                          answer.status = 200
                 ELSE resp
             payload == validate_jwt_token(token, remembered)
             user_info == extract_user_info(payload.payload)
             missing_scopes ==
                 missing_scopes_loop(required_scopes, user_info.permissions, <<>>)
         IN  IF ~payload.valid
             THEN GuardReject(401, "Invalid token", <<>>, NoUser, payload,
                              <<RptCall(token)>>)
             ELSE IF missing_scopes # <<>>
             THEN GuardReject(403, "Missing required RPT permissions",
                              missing_scopes, user_info, payload,
                              <<RptCall(token)>>)
             ELSE GuardPass(user_info, token, payload, <<RptCall(token)>>)

require_permissions(required_scopes, header, resp) ==
    IF ~has_bearer(header)
    THEN GuardReject(401, "No token provided", <<>>, NoUser, NoPayload, <<>>)
    ELSE LET token == bearer_token(header)
             payload == validate_jwt_token(token, resp)
             user_info == extract_user_info(payload.payload)
             missing_scopes ==
                 missing_scopes_loop(required_scopes, user_info.permissions, <<>>)
         IN  IF ~payload.valid
             THEN GuardReject(401, "Invalid token", <<>>, NoUser, payload,
                              <<RptCall(token)>>)
             ELSE IF missing_scopes # <<>>
             THEN GuardReject(403, "Missing required RPT permissions",
                              missing_scopes, user_info, payload,
                              <<RptCall(token)>>)
             ELSE GuardPass(user_info, token, payload, <<RptCall(token)>>)

\* the answers the token endpoint can give to the exchange of this request;
\* no exchange is sent for a request that the guard rejects on its header
ExchangeAnswers(header, answers) ==
    IF has_bearer(header) THEN answers ELSE {NoExchange}

-----------------------------------------------------------------------------
(* The state after construction: empty store, nothing provisioned *)

\* the worker threads of the WSGI server, and a thread with no request
Workers == {1, 2}

IdleWorker == [pc |-> "idle"]

NoRequest ==
    [op |-> "none", header |-> NoHeader, required |-> <<>>, rpt |-> NoExchange,
     guard |-> GuardReject(0, "", <<>>, NoUser, NoPayload, <<>>),
     ran |-> FALSE, status |-> 0, body |-> [x \in {} |-> None]]

Init ==
    /\ last = NoRequest
    /\ calls = <<>>
    /\ pathogens = {}
    /\ projects = {}
    /\ studies = {}
    /\ kc_resources = {}
    /\ kc_groups = {}
    /\ kc_members = {}
    /\ song_studies = {}
    /\ kc_policy = [granted |-> {}, revoked |-> {}]
    /\ inflight = [w \in Workers |-> IdleWorker]

\* the response of a request: the guard's own when it rejects, the
\* handler's when the guard lets the request through
Guarded(op, header, required, resp, guard, status, body) ==
    [op |-> op, header |-> header, required |-> required, rpt |-> resp,
     guard |-> guard, ran |-> guard.passed,
     status |-> IF guard.passed THEN status ELSE guard.status,
     body |-> IF guard.passed THEN body
              ELSE IF guard.status = 403
              THEN [error |-> guard.error, missing |-> guard.missing,
                    user_permissions |-> guard.user_permissions,
                    rpt_permissions |-> guard.rpt_permissions]
              ELSE [error |-> guard.error]]

-----------------------------------------------------------------------------
(* The /auth/test endpoints: a guard around a handler that echoes g.user *)

RequiredAtoms ==
    {<<"READ">>, <<"WRITE">>, <<"folio", ".", "WRITE">>,
     <<"project-alpha", ".", "WRITE">>}

RequiredLists == SeqUpTo(RequiredAtoms, MaxRequired)

AuthTestBody(guard, message, action, status) ==
    [message |-> message, user |-> guard.g_user, action |-> action,
     status |-> status]

\* Flask pops the request context (g.user, g.token) once the response is
\* out; the next request starts from a fresh context
teardown_request ==
    /\ last.op # "none"
    /\ last' = NoRequest
    /\ calls' = <<>>
    /\ UNCHANGED <<storeVars, downstreamVars, inflight>>

AuthTest_get ==
    /\ last.op = "none"
    /\ \E header \in Headers :
       \E resp \in ExchangeAnswers(header, RptResponses) :
        LET guard == authenticate_token(header, resp) IN
        /\ last' = Guarded("AuthTest.get", header, <<>>, resp, guard, 200,
                       AuthTestBody(guard, "Hello from Folio!", "",
                                    "authenticated"))
        /\ calls' = guard.calls
        /\ UNCHANGED <<storeVars, downstreamVars, inflight>>

AuthTestGuarded_on(op, required, message, action, headers, answers) ==
    /\ last.op = "none"
    /\ \E header \in headers :
       \E resp \in ExchangeAnswers(header, answers) :
        LET guard == require_permissions(required, header, resp) IN
        /\ last' = Guarded(op, header, required, resp, guard, 200,
                       AuthTestBody(guard, message, action, "authorized"))
        /\ calls' = guard.calls
        /\ UNCHANGED <<storeVars, downstreamVars, inflight>>

AuthTestGuarded(op, required, message, action) ==
    AuthTestGuarded_on(op, required, message, action, Headers, RptResponses)

AuthTestRead_get ==
    AuthTestGuarded("AuthTestRead.get", << <<"READ">> >>,
                    "You have READ access!", "read")

AuthTestWrite_get ==
    AuthTestGuarded("AuthTestWrite.get", << <<"WRITE">> >>,
                    "You have WRITE access!", "write")

AuthTestAdmin_post ==
    AuthTestGuarded("AuthTestAdmin.post", << <<"READ">>, <<"WRITE">> >>,
                    "You have full READ and WRITE access!", "admin")

\* require_permissions(required_scopes) around a handler, for every list of
\* required scopes the decorator can be given
RequirePermissions_any ==
    \E required \in RequiredLists :
        AuthTestGuarded("require_permissions", required, "", "")

NextAuth ==
    \/ AuthTest_get
    \/ AuthTestRead_get
    \/ AuthTestWrite_get
    \/ AuthTestAdmin_post
    \/ RequirePermissions_any
    \/ teardown_request

SpecAuth == Init /\ [][NextAuth]_vars

-----------------------------------------------------------------------------
(* The guards while the grants of the realm user change at Keycloak *)

\* an administrator grants the user a scope of 'folio'
kc_grant ==
    /\ last.op = "none"
    /\ \E scope \in ScopeNames \ kc_policy.granted :
          kc_policy' = [granted |-> kc_policy.granted \cup {scope},
                        revoked |-> kc_policy.revoked \ {scope}]
    /\ UNCHANGED <<last, calls, storeVars, kc_resources, kc_groups,
                   kc_members, song_studies, inflight>>

\* an administrator withdraws a scope the user holds
kc_revoke ==
    /\ last.op = "none"
    /\ \E scope \in kc_policy.granted :
          kc_policy' = [granted |-> kc_policy.granted \ {scope},
                        revoked |-> kc_policy.revoked \cup {scope}]
    /\ UNCHANGED <<last, calls, storeVars, kc_resources, kc_groups,
                   kc_members, song_studies, inflight>>

\* the requests: no header, the JWT of the realm user, an opaque token
SessionHeaders ==
    {NoHeader,
     [present |-> TRUE, value |-> <<"Bearer", " ", "jwtAlice">>],
     [present |-> TRUE, value |-> <<"Bearer", " ", "opaque">>]}

\* the guarded /auth/test endpoints, the exchange answered from the grants
\* Keycloak holds when the request arrives
AuthTestRead_get_granted ==
    AuthTestGuarded_on("AuthTestRead.get", << <<"READ">> >>,
                       "You have READ access!", "read",
                       SessionHeaders, rpt_answers(kc_policy.granted))

AuthTestWrite_get_granted ==
    AuthTestGuarded_on("AuthTestWrite.get", << <<"WRITE">> >>,
                       "You have WRITE access!", "write",
                       SessionHeaders, rpt_answers(kc_policy.granted))

AuthTestAdmin_post_granted ==
    AuthTestGuarded_on("AuthTestAdmin.post", << <<"READ">>, <<"WRITE">> >>,
                       "You have full READ and WRITE access!", "admin",
                       SessionHeaders, rpt_answers(kc_policy.granted))

RequirePermissions_any_granted ==
    \E required \in RequiredLists :
        AuthTestGuarded_on("require_permissions", required, "", "",
                           SessionHeaders, rpt_answers(kc_policy.granted))

NextSession ==
    \/ kc_grant
    \/ kc_revoke
    \/ AuthTestRead_get_granted
    \/ AuthTestWrite_get_granted
    \/ AuthTestAdmin_post_granted
    \/ RequirePermissions_any_granted
    \/ teardown_request

SpecSession == Init /\ [][NextSession]_vars

-----------------------------------------------------------------------------
(* Identity broker client: administrative calls against Keycloak *)

\* values the provisioning helpers return
PyFalse == "False"
PyTrue  == "True"
PyDict  == "dict"      \* a non-empty JSON object (resource, group, SONG study)

\* how the environment treats one provisioning step: Keycloak serves it, the
\* client-credentials exchange fails, the administrative call itself fails
\* (non-2xx other than 409, timeout, transport error), or - for the step
\* that reads the created group back - that second call fails; SONG may
\* also answer with a 2xx status other than 200 and 201
StepOutcomes == {"ok", "token_fail", "call_fail"}
GroupStepOutcomes == StepOutcomes \cup {"readback_fail"}
SongOutcomes == {"ok", "other_2xx", "call_fail"}

\* users that exist in the realm
KcUsers == {"alice"}

\* the state of the external systems a helper works on
External(resources, groups, members, song) ==
    [resources |-> resources, groups |-> groups, members |-> members,
     song |-> song]

TokenCall == [sys |-> "keycloak", op |-> "service_token", arg |-> <<>>]
KcCall(op, arg) == [sys |-> "keycloak", op |-> op, arg |-> arg]
SongCall(study_id, token) ==
    [sys |-> "song", op |-> "create_study", arg |-> study_id \o <<"/">> \o token]
DbCall(op, table) == [sys |-> "db", op |-> op, arg |-> <<table>>]

\* what a helper did: its return value, the external state after it, the
\* calls it issued, and whether an exception left it
Did(ret, ext, issued) ==
    [ret |-> ret, raised |-> FALSE, ext |-> ext, calls |-> issued]

\* POST to the UMA resource registration endpoint, after a service token
register_resource(name, fault, ext) ==
    IF fault = "token_fail" THEN Did(PyFalse, ext, <<TokenCall>>)
    ELSE LET issued == <<TokenCall, KcCall("create_resource", name)>> IN
         IF fault = "call_fail" THEN Did(PyFalse, ext, issued)
         ELSE IF name \in ext.resources
         THEN Did(None, ext, issued)                                \* 409
         ELSE Did(PyDict, [ext EXCEPT !.resources = @ \cup {name}], issued)

\* the helper without its try/except: a failed call leaves it as an
\* exception
create_project_resource_unguarded(project_slug, fault, ext) ==
    IF fault = "call_fail"
    THEN [ret |-> None, raised |-> TRUE, ext |-> ext,
          calls |-> <<TokenCall, KcCall("create_resource", project_slug)>>]
    ELSE register_resource(project_slug, fault, ext)

create_project_resource(project_slug, fault, ext) ==
    register_resource(project_slug, fault, ext)

\* a helper without its try/except: a failed call leaves it as an exception
create_study_resource_unguarded(study_id, fault, ext) ==
    IF fault = "call_fail"
    THEN [ret |-> None, raised |-> TRUE, ext |-> ext,
          calls |-> <<TokenCall, KcCall("create_resource", study_id)>>]
    ELSE register_resource(study_id, fault, ext)

create_study_resource(study_id, fault, ext) ==
    register_resource(study_id, fault, ext)

\* a helper that sends the POST a second time when the first one failed
post_permission_group_retrying(group_name, fault, ext) ==
    IF fault = "token_fail" THEN Did(PyFalse, ext, <<TokenCall>>)
    ELSE LET issued == <<TokenCall, KcCall("create_group", group_name)>> IN
         IF fault = "call_fail"
         THEN Did(PyFalse, ext,
                  issued \o <<KcCall("create_group", group_name)>>)
         ELSE IF group_name \in ext.groups
         THEN Did(PyTrue, ext, issued)
         ELSE Did(PyTrue, [ext EXCEPT !.groups = @ \cup {group_name}], issued)

\* POST /groups for a permission group, after a service token
post_permission_group(group_name, fault, ext) ==
    IF fault = "token_fail" THEN Did(PyFalse, ext, <<TokenCall>>)
    ELSE LET issued == <<TokenCall, KcCall("create_group", group_name)>> IN
         IF fault = "call_fail" THEN Did(PyFalse, ext, issued)
         ELSE IF group_name \in ext.groups
         THEN Did(PyTrue, ext, issued)                              \* 409
         ELSE Did(PyTrue, [ext EXCEPT !.groups = @ \cup {group_name}], issued)

project_group_name(project_slug, permission) ==
    <<"project", "-">> \o project_slug \o <<"-", permission>>

study_group_name(study_id, permission) ==
    <<"study", "-">> \o study_id \o <<"-", permission>>

create_project_group_with_permission(project_slug, permission, fault, ext) ==
    post_permission_group(project_group_name(project_slug, permission),
                          fault, ext)

create_study_group_with_permission(study_id, permission, fault, ext) ==
    post_permission_group(study_group_name(study_id, permission), fault, ext)

\* the umbrella group of a study; a created group is read back, and an
\* exception in that second call makes the helper return False
\* a group creation that enrols the realm user in the group it created
create_study_group_enrolling(study_id, fault, ext) ==
    LET name == <<"study", "-">> \o study_id IN
    IF fault = "token_fail" THEN Did(PyFalse, ext, <<TokenCall>>)
    ELSE LET issued == <<TokenCall, KcCall("create_group", name)>> IN
         IF fault = "call_fail" THEN Did(PyFalse, ext, issued)
         ELSE IF name \in ext.groups
         THEN Did(None, ext, issued)
         ELSE Did(PyDict,
                  [ext EXCEPT !.groups = @ \cup {name},
                              !.members = @ \cup {<<name, "alice">>}],
                  issued \o <<KcCall("get_group", name), TokenCall,
                              KcCall("add_member", name \o <<"/", "alice">>)>>)

create_study_group(study_id, fault, ext) ==
    LET name == <<"study", "-">> \o study_id IN
    IF fault = "token_fail" THEN Did(PyFalse, ext, <<TokenCall>>)
    ELSE LET issued == <<TokenCall, KcCall("create_group", name)>> IN
         IF fault = "call_fail" THEN Did(PyFalse, ext, issued)
         ELSE IF name \in ext.groups
         THEN Did(None, ext, issued)                                \* 409
         ELSE LET created == [ext EXCEPT !.groups = @ \cup {name}]
                  readback == issued \o <<KcCall("get_group", name)>>
              IN  IF fault = "readback_fail"
                  THEN Did(PyFalse, created, readback)
                  ELSE Did(PyDict, created, readback)

\* the helper without its PUT: the lookups succeed and nothing is added
add_user_lookup_only(project_slug, username, permission, fault, ext) ==
    LET group_name == project_group_name(project_slug, permission)
    IN  Did(PyTrue, ext,
            <<TokenCall, KcCall("find_group", group_name),
              TokenCall, KcCall("find_user", <<username>>)>>)

\* the helper with one service token for its two lookups and its PUT
add_user_with_one_token(project_slug, username, permission, fault, ext) ==
    LET group_name == project_group_name(project_slug, permission)
        find_group == <<TokenCall, KcCall("find_group", group_name)>>
        find_user == <<KcCall("find_user", <<username>>)>>
        put == <<KcCall("add_member", group_name \o <<"/", username>>)>>
    IN  IF fault = "token_fail" THEN Did(PyFalse, ext, <<TokenCall>>)
        ELSE IF group_name \notin ext.groups
        THEN Did(PyFalse, ext, find_group)
        ELSE IF username \notin KcUsers
        THEN Did(PyFalse, ext, find_group \o find_user)
        ELSE IF fault = "call_fail"
        THEN Did(PyFalse, ext, find_group \o find_user \o put)
        ELSE Did(PyTrue,
                 [ext EXCEPT !.members = @ \cup {<<group_name, username>>}],
                 find_group \o find_user \o put)

\* get_project_group_by_name, get_user_by_username, then PUT
\* /users/{id}/groups/{id}, each after its own service token
add_user_to_project_group_with_permission(project_slug, username, permission, fault, ext) ==
    LET group_name == project_group_name(project_slug, permission)
        find_group == <<TokenCall, KcCall("find_group", group_name)>>
        find_user == <<TokenCall, KcCall("find_user", <<username>>)>>
        put == <<TokenCall, KcCall("add_member", group_name \o <<"/", username>>)>>
    IN  IF fault = "token_fail" THEN Did(PyFalse, ext, <<TokenCall>>)
        ELSE IF group_name \notin ext.groups
        THEN Did(PyFalse, ext, find_group)
        ELSE IF username \notin KcUsers
        THEN Did(PyFalse, ext, find_group \o find_user)
        ELSE IF fault = "call_fail"
        THEN Did(PyFalse, ext, find_group \o find_user \o put)
        ELSE Did(PyTrue,
                 [ext EXCEPT !.members = @ \cup {<<group_name, username>>}],
                 find_group \o find_user \o put)

\* the status SONG answers the registration with; 0 stands for a timeout or
\* a transport failure, 409 for a study SONG already has
song_status(study_id, fault, ext) ==
    IF fault = "call_fail" THEN 0
    ELSE IF study_id \in ext.song THEN 409
    ELSE IF fault = "other_2xx" THEN 204
    ELSE 201

\* a helper that lets the exception of a failed call through
create_song_study_unguarded(study_id, token, fault, ext) ==
    [ret |-> None, raised |-> song_status(study_id, fault, ext) \notin {201, 204},
     ext |-> ext, calls |-> <<SongCall(study_id, token)>>,
     status |-> song_status(study_id, fault, ext)]

\* POST http://song:8080/studies/{study_id}/ with the caller's token: the
\* JSON body for 200 and 201, None for every other answer and for every
\* exception
\* a registration that authenticates with a service token of its own
create_song_study_as_service(study_id, token, fault, ext) ==
    LET status == song_status(study_id, fault, ext)
        registered == IF status \in {201, 204}
                      THEN [ext EXCEPT !.song = @ \cup {study_id}] ELSE ext
    IN  [ret |-> IF status \in {200, 201} THEN PyDict ELSE None,
         raised |-> FALSE, ext |-> registered,
         calls |-> <<TokenCall, SongCall(study_id, <<"service_token">>)>>,
         status |-> status]

create_song_study(study_id, token, fault, ext) ==
    LET status == song_status(study_id, fault, ext)
        registered == IF status \in {201, 204}
                      THEN [ext EXCEPT !.song = @ \cup {study_id}] ELSE ext
    IN  [ret |-> IF status \in {200, 201} THEN PyDict ELSE None,
         raised |-> FALSE, ext |-> registered,
         calls |-> <<SongCall(study_id, token)>>, status |-> status]

-----------------------------------------------------------------------------
(* Entity store and provisioning orchestration *)

\* Python truth value of a helper's return value
PyTruthy(value) == value \in {PyTrue, PyDict}

\* bool(value): a status flag that takes "already exists" (None) for a failure
is_truthy_value(value) == IF PyTruthy(value) THEN PyTrue ELSE PyFalse

\* value is not False
is_not_False(value) == IF value # PyFalse THEN PyTrue ELSE PyFalse

\* value is not None
is_not_None(value) == IF value # None THEN PyTrue ELSE PyFalse

\* a and b
py_and(a, b) == IF PyTruthy(a) THEN b ELSE a

\* the next statement of a try block: skipped once an exception is in flight
After(prev, step) ==
    IF prev.raised
    THEN [ret |-> None, raised |-> TRUE, ext |-> prev.ext, calls |-> <<>>]
    ELSE step

\* keys and faults the requests of the model draw from
PathogenNames == {"Malaria"}
Slugs         == {<<"alpha">>}
StudyIds      == {<<"alpha">>}

\* store failures the requests draw: psycopg2.connect fails, or the INSERT
\* raises (the handlers also treat "commit", a COMMIT that raises)
DbFaults == {"none", "connect", "insert"}

\* the requests of the entity endpoints: no header, a JWT of a realm user,
\* an opaque token; answered with both folio scopes, with no permission, or
\* with a rejection
ApiHeaders ==
    {NoHeader,
     [present |-> TRUE, value |-> <<"Bearer", " ", "jwtAlice">>],
     [present |-> TRUE, value |-> <<"Bearer", " ", "opaque">>]}

ApiRptAnswers ==
    {[kind |-> "http", status |-> 200,
      body |-> JsonList(<<[rsname |-> <<"folio">>,
                           scopes |-> << <<"READ">>, <<"WRITE">> >>]>>)],
     [kind |-> "http", status |-> 200, body |-> JsonList(<<>>)],
     [kind |-> "http", status |-> 401, body |-> JsonOther("error")]}

\* what the store phase of a create handler did: whether the row was
\* inserted, the response when it was not, the table afterwards
StoreDid(inserted, status, body, row, rows, issued) ==
    [inserted |-> inserted, status |-> status, body |-> body, row |-> row,
     rows |-> rows, calls |-> issued]

NoRow == [id |-> 0]

\* PathogenList.post: SELECT by name, INSERT, COMMIT
pathogen_insert(data, dbfault, rows) ==
    LET connect == <<DbCall("connect", "")>>
        select == connect \o <<DbCall("select", "pathogens")>>
        insert == select \o <<DbCall("insert", "pathogens")>>
        row == [id |-> Cardinality(rows) + 1, name |-> data.name,
                deleted_at |-> None]
    IN  IF dbfault = "connect"
        THEN StoreDid(FALSE, 500, [error |-> "Database connection failed"],
                      NoRow, rows, connect)
        ELSE IF \E r \in rows : r.name = data.name
        THEN StoreDid(FALSE, 409, [error |-> "Pathogen already exists"],
                      NoRow, rows, select \o <<DbCall("close", "")>>)
        ELSE IF dbfault = "insert"
        THEN StoreDid(FALSE, 500, [error |-> "Failed to create pathogen"],
                      NoRow, rows,
                      insert \o <<DbCall("rollback", ""), DbCall("close", "")>>)
        ELSE IF dbfault = "commit"
        THEN StoreDid(FALSE, 500, [error |-> "Failed to create pathogen"],
                      NoRow, rows,
                      insert \o <<DbCall("commit", ""), DbCall("rollback", ""),
                                  DbCall("close", "")>>)
        ELSE StoreDid(TRUE, 201, row, row, rows \cup {row},
                      insert \o <<DbCall("commit", ""), DbCall("close", "")>>)

\* an existence check that only looks at the rows that are not deleted
project_insert_among_live(g_user, data, dbfault, rows, pathogen_rows) ==
    LET connect == <<DbCall("connect", "")>>
        select == connect \o <<DbCall("select", "projects")>>
        select2 == select \o <<DbCall("select", "pathogens")>>
        insert == select2 \o <<DbCall("insert", "projects")>>
        row == [id |-> Cardinality(rows) + 1, slug |-> data.slug,
                organization_id |-> "default-org",
                user_id |-> DictGet(g_user, "sub", None),
                pathogen_id |-> data.pathogen_id, deleted_at |-> None]
    IN  IF dbfault = "connect"
        THEN StoreDid(FALSE, 500, [error |-> "Database connection failed"],
                      NoRow, rows, connect)
        ELSE IF \E r \in rows : r.slug = data.slug /\ r.deleted_at = None
        THEN StoreDid(FALSE, 409, [error |-> "Project slug already exists"],
                      NoRow, rows, select \o <<DbCall("close", "")>>)
        ELSE IF ~ \E r \in pathogen_rows : r.id = data.pathogen_id
        THEN StoreDid(FALSE, 400, [error |-> "Pathogen not found"],
                      NoRow, rows, select2 \o <<DbCall("close", "")>>)
        ELSE IF dbfault = "insert"
        THEN StoreDid(FALSE, 500, [error |-> "Failed to create project"],
                      NoRow, rows,
                      insert \o <<DbCall("rollback", ""), DbCall("close", "")>>)
        ELSE IF dbfault = "commit"
        THEN StoreDid(FALSE, 500, [error |-> "Failed to create project"],
                      NoRow, rows,
                      insert \o <<DbCall("commit", ""), DbCall("rollback", ""),
                                  DbCall("close", "")>>)
        ELSE StoreDid(TRUE, 201, row, row, rows \cup {row},
                      insert \o <<DbCall("commit", "")>>)

\* ProjectList.post up to conn.commit(): SELECT by slug, SELECT the
\* pathogen by id, INSERT, COMMIT
project_insert(g_user, data, dbfault, rows, pathogen_rows) ==
    LET connect == <<DbCall("connect", "")>>
        select == connect \o <<DbCall("select", "projects")>>
        select2 == select \o <<DbCall("select", "pathogens")>>
        insert == select2 \o <<DbCall("insert", "projects")>>
        row == [id |-> Cardinality(rows) + 1, slug |-> data.slug,
                organization_id |-> "default-org",
                user_id |-> DictGet(g_user, "sub", None),
                pathogen_id |-> data.pathogen_id, deleted_at |-> None]
    IN  IF dbfault = "connect"
        THEN StoreDid(FALSE, 500, [error |-> "Database connection failed"],
                      NoRow, rows, connect)
        ELSE IF \E r \in rows : r.slug = data.slug
        THEN StoreDid(FALSE, 409, [error |-> "Project slug already exists"],
                      NoRow, rows, select \o <<DbCall("close", "")>>)
        ELSE IF ~ \E r \in pathogen_rows : r.id = data.pathogen_id
        THEN StoreDid(FALSE, 400, [error |-> "Pathogen not found"],
                      NoRow, rows, select2 \o <<DbCall("close", "")>>)
        ELSE IF dbfault = "insert"
        THEN StoreDid(FALSE, 500, [error |-> "Failed to create project"],
                      NoRow, rows,
                      insert \o <<DbCall("rollback", ""), DbCall("close", "")>>)
        ELSE IF dbfault = "commit"
        THEN StoreDid(FALSE, 500, [error |-> "Failed to create project"],
                      NoRow, rows,
                      insert \o <<DbCall("commit", ""), DbCall("rollback", ""),
                                  DbCall("close", "")>>)
        ELSE StoreDid(TRUE, 201, row, row, rows \cup {row},
                      insert \o <<DbCall("commit", "")>>)

ProjectSteps ==
    {"resource", "read", "write", "admin", "m_read", "m_write", "m_admin"}

ProjectFaults == [ProjectSteps -> StepOutcomes]

NotAttempted(ext) == Did(None, ext, <<>>)

\* a setup whose membership loop stops at the first add that fails
setup_project_keycloak_stopping(project_slug, username, faults, ext) ==
    LET resource_created ==
            create_project_resource(project_slug, faults["resource"], ext)
        read_group_created ==
            After(resource_created,
                  create_project_group_with_permission(project_slug, "read",
                      faults["read"], resource_created.ext))
        write_group_created ==
            After(read_group_created,
                  create_project_group_with_permission(project_slug, "write",
                      faults["write"], read_group_created.ext))
        admin_group_created ==
            After(write_group_created,
                  create_project_group_with_permission(project_slug, "admin",
                      faults["admin"], write_group_created.ext))
        add_read ==
            After(admin_group_created,
                  IF PyTruthy(read_group_created.ret)
                  THEN add_user_to_project_group_with_permission(project_slug,
                           username, "read", faults["m_read"],
                           admin_group_created.ext)
                  ELSE NotAttempted(admin_group_created.ext))
        add_write ==
            After(add_read,
                  IF PyTruthy(write_group_created.ret) /\ add_read.ret # PyFalse
                  THEN add_user_to_project_group_with_permission(project_slug,
                           username, "write", faults["m_write"], add_read.ext)
                  ELSE NotAttempted(add_read.ext))
        add_admin ==
            After(add_write,
                  IF PyTruthy(admin_group_created.ret) /\ add_write.ret # PyFalse
                  THEN add_user_to_project_group_with_permission(project_slug,
                           username, "admin", faults["m_admin"], add_write.ext)
                  ELSE NotAttempted(add_write.ext))
    IN  [ext |-> add_admin.ext,
         raised |-> add_admin.raised,
         calls |-> resource_created.calls \o read_group_created.calls
                   \o write_group_created.calls \o admin_group_created.calls
                   \o add_read.calls \o add_write.calls \o add_admin.calls,
         steps |-> [resource |-> resource_created.ret,
                    read |-> read_group_created.ret,
                    write |-> write_group_created.ret,
                    admin |-> admin_group_created.ret,
                    m_read |-> add_read.ret,
                    m_write |-> add_write.ret,
                    m_admin |-> add_admin.ret]]

\* ProjectList.post, the try block after the commit: resource, the three
\* groups, then the creator's membership of every group that was created
setup_project_keycloak(project_slug, username, faults, ext) ==
    LET resource_created ==
            create_project_resource(project_slug, faults["resource"], ext)
        read_group_created ==
            After(resource_created,
                  create_project_group_with_permission(project_slug, "read",
                      faults["read"], resource_created.ext))
        write_group_created ==
            After(read_group_created,
                  create_project_group_with_permission(project_slug, "write",
                      faults["write"], read_group_created.ext))
        admin_group_created ==
            After(write_group_created,
                  create_project_group_with_permission(project_slug, "admin",
                      faults["admin"], write_group_created.ext))
        add_read ==
            After(admin_group_created,
                  IF PyTruthy(read_group_created.ret)
                  THEN add_user_to_project_group_with_permission(project_slug,
                           username, "read", faults["m_read"],
                           admin_group_created.ext)
                  ELSE NotAttempted(admin_group_created.ext))
        add_write ==
            After(add_read,
                  IF PyTruthy(write_group_created.ret)
                  THEN add_user_to_project_group_with_permission(project_slug,
                           username, "write", faults["m_write"], add_read.ext)
                  ELSE NotAttempted(add_read.ext))
        add_admin ==
            After(add_write,
                  IF PyTruthy(admin_group_created.ret)
                  THEN add_user_to_project_group_with_permission(project_slug,
                           username, "admin", faults["m_admin"], add_write.ext)
                  ELSE NotAttempted(add_write.ext))
    IN  [ext |-> add_admin.ext,
         raised |-> add_admin.raised,
         calls |-> resource_created.calls \o read_group_created.calls
                   \o write_group_created.calls \o admin_group_created.calls
                   \o add_read.calls \o add_write.calls \o add_admin.calls,
         steps |-> [resource |-> resource_created.ret,
                    read |-> read_group_created.ret,
                    write |-> write_group_created.ret,
                    admin |-> admin_group_created.ret,
                    m_read |-> add_read.ret,
                    m_write |-> add_write.ret,
                    m_admin |-> add_admin.ret]]

\* ProjectList.post after the commit: the Keycloak setup, whose exceptions
\* are swallowed, then "return serialize_record(project), 201"
project_respond(project, setup) ==
    [status |-> 201, body |-> project,
     calls |-> setup.calls \o <<DbCall("close", "")>>]

\* StudyList.post up to the INSERT, which stays uncommitted: SELECT by
\* study_id, SELECT the project by id, INSERT
study_insert(data, dbfault, rows, project_rows) ==
    LET connect == <<DbCall("connect", "")>>
        select == connect \o <<DbCall("select", "studies")>>
        select2 == select \o <<DbCall("select", "projects")>>
        insert == select2 \o <<DbCall("insert", "studies")>>
        row == [id |-> Cardinality(rows) + 1, study_id |-> data.study_id,
                project_id |-> data.project_id, deleted_at |-> None]
    IN  IF dbfault = "connect"
        THEN StoreDid(FALSE, 500, [error |-> "Database connection failed"],
                      NoRow, rows, connect)
        ELSE IF \E r \in rows : r.study_id = data.study_id
        THEN StoreDid(FALSE, 409, [error |-> "Study ID already exists"],
                      NoRow, rows, select \o <<DbCall("close", "")>>)
        ELSE IF ~ \E r \in project_rows : r.id = data.project_id
        THEN StoreDid(FALSE, 400, [error |-> "Project not found"],
                      NoRow, rows, select2 \o <<DbCall("close", "")>>)
        ELSE IF dbfault = "insert"
        THEN StoreDid(FALSE, 500, [error |-> "Failed to create study"],
                      NoRow, rows,
                      insert \o <<DbCall("rollback", ""), DbCall("close", "")>>)
        ELSE StoreDid(TRUE, 201, row, row, rows, insert)

StudySteps == {"song", "resource", "group", "read", "write", "admin"}

StudyFaults ==
    {f \in [StudySteps -> GroupStepOutcomes \cup SongOutcomes] :
        /\ f["song"] \in SongOutcomes
        /\ f["group"] \in GroupStepOutcomes
        /\ \A st \in {"resource", "read", "write", "admin"} :
               f[st] \in StepOutcomes}

\* StudyList.post between the INSERT and the COMMIT: SONG, the resource,
\* the umbrella group, the three permission groups
setup_study(study_id, token, faults, ext) ==
    LET song_result == create_song_study(study_id, token, faults["song"], ext)
        resource_result ==
            After(song_result,
                  create_study_resource(study_id, faults["resource"],
                                        song_result.ext))
        group_result ==
            After(resource_result,
                  create_study_group(study_id, faults["group"],
                                     resource_result.ext))
        read_group ==
            After(group_result,
                  create_study_group_with_permission(study_id, "read",
                      faults["read"], group_result.ext))
        write_group ==
            After(read_group,
                  create_study_group_with_permission(study_id, "write",
                      faults["write"], read_group.ext))
        admin_group ==
            After(write_group,
                  create_study_group_with_permission(study_id, "admin",
                      faults["admin"], write_group.ext))
    IN  [ext |-> admin_group.ext,
         raised |-> admin_group.raised,
         calls |-> song_result.calls \o resource_result.calls
                   \o group_result.calls \o read_group.calls
                   \o write_group.calls \o admin_group.calls,
         song_status |-> song_result.status,
         steps |-> [song |-> song_result.ret,
                    resource |-> resource_result.ret,
                    group |-> group_result.ret,
                    read |-> read_group.ret,
                    write |-> write_group.ret,
                    admin |-> admin_group.ret]]

\* the keycloak_status dict of StudyList.post
keycloak_status(resource_result, group_result, read_group, write_group, admin_group) ==
    [resource |-> is_not_False(resource_result),
     group |-> is_not_False(group_result),
     permissions |-> py_and(py_and(read_group, write_group), admin_group)]

\* StudyList.post from conn.commit() on; an exception in the try block
\* (the commit's, or one a helper let through) rolls the insert back
study_commit_respond(study, setup, dbfault, rows) ==
    IF setup.raised
    THEN [status |-> 500, body |-> [error |-> "Failed to create study"],
          rows |-> rows,
          calls |-> setup.calls
                    \o <<DbCall("rollback", ""), DbCall("close", "")>>]
    ELSE IF dbfault = "commit"
    THEN [status |-> 500, body |-> [error |-> "Failed to create study"],
          rows |-> rows,
          calls |-> setup.calls
                    \o <<DbCall("commit", ""), DbCall("rollback", ""),
                         DbCall("close", "")>>]
    ELSE [status |-> 201,
          body |-> [song_created |-> is_not_None(setup.steps.song),
                    keycloak_created |->
                        keycloak_status(setup.steps.resource,
                                        setup.steps.group, setup.steps.read,
                                        setup.steps.write, setup.steps.admin)]
                   @@ study,
          rows |-> rows \cup {study},
          calls |-> setup.calls
                    \o <<DbCall("commit", ""), DbCall("close", "")>>]

-----------------------------------------------------------------------------
(* The create endpoints *)

WriteScope == << <<"WRITE">> >>

Ext == External(kc_resources, kc_groups, kc_members, song_studies)

\* the request is over: its response, its calls, and the state it leaves
Finish(op, header, resp, guard, env, steps, status, body, issued) ==
    /\ last' = Guarded(op, header, WriteScope, resp, guard, status, body)
                 @@ [env |-> env, steps |-> steps]
    /\ calls' = guard.calls \o issued
    /\ UNCHANGED inflight

NoEnv == [dbfault |-> "none"]
NoSteps == [x \in {} |-> None]

SetExt(ext) ==
    /\ kc_resources' = ext.resources
    /\ kc_groups' = ext.groups
    /\ kc_members' = ext.members
    /\ song_studies' = ext.song
    /\ UNCHANGED kc_policy

\* POST /pathogens, for requests drawn from the given sets
PathogenList_post_on(headers, answers, names, dbfaults) ==
    /\ last.op = "none"
    /\ \E header \in headers :
       \E resp \in ExchangeAnswers(header, answers) :
       \E guard \in {require_permissions(WriteScope, header, resp)} :
        IF ~guard.passed
        THEN /\ Finish("PathogenList.post", header, resp, guard, NoEnv,
                       NoSteps, 0, NoSteps, <<>>)
             /\ UNCHANGED <<storeVars, downstreamVars>>
        ELSE \E name \in names, dbfault \in dbfaults :
             \E data \in {[name |-> name]} :
             \E st \in {pathogen_insert(data, dbfault, pathogens)} :
                 /\ Finish("PathogenList.post", header, resp, guard,
                           [dbfault |-> dbfault, data |-> data], NoSteps,
                           st.status, st.body, st.calls)
                 /\ pathogens' = st.rows
                 /\ UNCHANGED <<projects, studies, downstreamVars>>

PathogenList_post ==
    PathogenList_post_on(ApiHeaders, ApiRptAnswers, PathogenNames, DbFaults)

\* POST /projects, for requests and step outcomes drawn from the given sets
ProjectList_post_on(headers, answers, slugs, dbfaults, step_faults) ==
    /\ last.op = "none"
    /\ \E header \in headers :
       \E resp \in ExchangeAnswers(header, answers) :
       \E guard \in {require_permissions(WriteScope, header, resp)} :
        IF ~guard.passed
        THEN /\ Finish("ProjectList.post", header, resp, guard, NoEnv,
                       NoSteps, 0, NoSteps, <<>>)
             /\ UNCHANGED <<storeVars, downstreamVars>>
        ELSE \E slug \in slugs, dbfault \in dbfaults,
                pathogen_id \in 1..(Cardinality(pathogens) + 1) :
             \E data \in {[slug |-> slug, pathogen_id |-> pathogen_id]} :
             \E st \in {project_insert(guard.g_user, data, dbfault, projects,
                                       pathogens)} :
                 IF ~st.inserted
                 THEN /\ Finish("ProjectList.post", header, resp, guard,
                                [dbfault |-> dbfault, data |-> data], NoSteps,
                                st.status, st.body, st.calls)
                      /\ UNCHANGED <<storeVars, downstreamVars>>
                 ELSE \E faults \in step_faults :
                      \E username \in {DictGet(guard.g_user, "username",
                                                 "unknown")} :
                      \E setup \in {setup_project_keycloak(st.row.slug,
                                         username, faults, Ext)} :
                      \E r \in {project_respond(st.row, setup)} :
                          /\ Finish("ProjectList.post", header, resp, guard,
                                    [dbfault |-> dbfault, data |-> data,
                                     faults |-> faults],
                                    setup.steps, r.status, r.body,
                                    st.calls \o r.calls)
                          /\ projects' = st.rows
                          /\ SetExt(setup.ext)
                          /\ UNCHANGED <<pathogens, studies>>

ProjectList_post ==
    ProjectList_post_on(ApiHeaders, ApiRptAnswers, Slugs, DbFaults,
                        ProjectFaults)

\* POST /studies, for requests and step outcomes drawn from the given sets
StudyList_post_on(headers, answers, study_ids, dbfaults, step_faults) ==
    /\ last.op = "none"
    /\ \E header \in headers :
       \E resp \in ExchangeAnswers(header, answers) :
       \E guard \in {require_permissions(WriteScope, header, resp)} :
        IF ~guard.passed
        THEN /\ Finish("StudyList.post", header, resp, guard, NoEnv,
                       NoSteps, 0, NoSteps, <<>>)
             /\ UNCHANGED <<storeVars, downstreamVars>>
        ELSE \E study_id \in study_ids, dbfault \in dbfaults,
                project_id \in 1..(Cardinality(projects) + 1) :
             \E data \in {[study_id |-> study_id,
                          project_id |-> project_id]} :
             \E st \in {study_insert(data, dbfault, studies, projects)} :
                 IF ~st.inserted
                 THEN /\ Finish("StudyList.post", header, resp, guard,
                                [dbfault |-> dbfault, data |-> data], NoSteps,
                                st.status, st.body, st.calls)
                      /\ UNCHANGED <<storeVars, downstreamVars>>
                 ELSE \E faults \in step_faults :
                      \E setup \in {setup_study(data.study_id,
                                         guard.g_token, faults, Ext)} :
                      \E r \in {study_commit_respond(st.row, setup, dbfault,
                                                     st.rows)} :
                          /\ Finish("StudyList.post", header, resp, guard,
                                    [dbfault |-> dbfault, data |-> data,
                                     faults |-> faults,
                                     song_status |-> setup.song_status],
                                    setup.steps, r.status, r.body,
                                    st.calls \o r.calls)
                          /\ studies' = r.rows
                          /\ SetExt(setup.ext)
                          /\ UNCHANGED <<pathogens, projects>>

StudyList_post ==
    StudyList_post_on(ApiHeaders, ApiRptAnswers, StudyIds, DbFaults,
                      StudyFaults)

Next ==
    \/ PathogenList_post
    \/ ProjectList_post
    \/ StudyList_post
    \/ teardown_request

Spec == Init /\ [][Next]_vars

-----------------------------------------------------------------------------
(* Entity store: the list, read, update and delete handlers *)

\* CURRENT_TIMESTAMP, as far as a row tells: a timestamp is set
Timestamp == "timestamp"

ReadScope == << <<"READ">> >>

\* what the store phase of a handler did: the response and the table after
DbDid(status, body, rows, issued) ==
    [status |-> status, body |-> body, rows |-> rows, calls |-> issued]

\* get_db_connection() returned None
ConnectFailed(rows) ==
    DbDid(500, [error |-> "Database connection failed"], rows,
          <<DbCall("connect", "")>>)

\* an except branch that answers 500 and closes without rolling back
WriteFailed_without_rollback(error, rows, issued) ==
    DbDid(500, [error |-> error], rows, issued \o <<DbCall("close", "")>>)

\* the except branch of a handler that writes: rollback, 500, close
WriteFailed(error, rows, issued) ==
    DbDid(500, [error |-> error], rows,
          issued \o <<DbCall("rollback", ""), DbCall("close", "")>>)

\* the statements of a handler up to its early return or its commit
Statements(table, ops) ==
    <<DbCall("connect", "")>> \o [i \in 1..Len(ops) |-> DbCall(ops[i], table)]

\* an early return that leaves the connection open
Returned_unclosed(issued) == issued

Closed(issued) == issued \o <<DbCall("close", "")>>
Committed(issued) == issued \o <<DbCall("commit", ""), DbCall("close", "")>>

\* WHERE deleted_at IS NULL
not_deleted(rows) == {r \in rows : r.deleted_at = None}

\* the table with one row replaced
replace_row(rows, old, new) == (rows \ {old}) \cup {new}

\* the UNIQUE constraint on pathogens.name: another row has the name
name_taken(rows, id, name) == \E r \in rows : r.id # id /\ r.name = name

\* PathogenList.get: SELECT * FROM pathogens WHERE deleted_at IS NULL
pathogen_list(dbfault, rows) ==
    IF dbfault = "connect" THEN ConnectFailed(rows)
    ELSE DbDid(200, not_deleted(rows), rows,
               Closed(Statements("pathogens", <<"select">>)))

\* PathogenDetail.get: SELECT ... WHERE id = %s AND deleted_at IS NULL
pathogen_get(pathogen_id, dbfault, rows) ==
    LET found == {r \in not_deleted(rows) : r.id = pathogen_id}
        issued == Closed(Statements("pathogens", <<"select">>))
    IN  IF dbfault = "connect" THEN ConnectFailed(rows)
        ELSE IF found = {}
        THEN DbDid(404, [error |-> "Pathogen not found"], rows, issued)
        ELSE DbDid(200, CHOOSE r \in found : TRUE, rows, issued)

\* an identifier that is falsy in Python and NULL in the store
NoId == 0

\* a request body's entries under the given keys
only_keys(data, keys) == [k \in (DOMAIN data) \cap keys |-> data[k]]

\* an UPDATE that sets the assigned columns only
assign_unstamped(row, assigned, now) ==
    [c \in DOMAIN row |-> IF c \in DOMAIN assigned THEN assigned[c] ELSE row[c]]

\* UPDATE ... SET <assigned>, updated_at = CURRENT_TIMESTAMP on one row:
\* the columns the row carries take the assigned values and the time
assign(row, assigned, now) ==
    [c \in DOMAIN row |->
        IF c \in DOMAIN assigned THEN assigned[c]
        ELSE IF c = "updated_at" THEN now
        ELSE row[c]]

\* PathogenDetail.put: SELECT * FROM pathogens WHERE id = %s, then UPDATE
\* ... SET name, scientific_name, description, updated_at WHERE id = %s;
\* data['name'] raises when the body has no name
pathogen_put(pathogen_id, data, now, dbfault, rows) ==
    LET found == {r \in rows : r.id = pathogen_id}
        existing_pathogen == CHOOSE r \in found : TRUE
        pathogen ==
            assign(existing_pathogen,
                   [name |-> data.name,
                    scientific_name |-> DictGet(data, "scientific_name", None),
                    description |-> DictGet(data, "description", None)],
                   now)
    IN  IF dbfault = "connect" THEN ConnectFailed(rows)
        ELSE IF found = {}
        THEN DbDid(404, [error |-> "Pathogen not found"], rows,
                   Closed(Statements("pathogens", <<"select">>)))
        ELSE IF "name" \notin DOMAIN data
        THEN WriteFailed("Failed to update pathogen", rows,
                         Statements("pathogens", <<"select">>))
        ELSE IF dbfault = "update" \/ name_taken(rows, pathogen_id, data.name)
        THEN WriteFailed("Failed to update pathogen", rows,
                         Statements("pathogens", <<"select", "update">>))
        ELSE DbDid(200, pathogen,
                   replace_row(rows, existing_pathogen, pathogen),
                   Committed(Statements("pathogens", <<"select", "update">>)))

\* PathogenDetail.patch: SELECT ... AND deleted_at IS NULL, then UPDATE of
\* the fields the body has, and of updated_at
pathogen_patch(pathogen_id, data, now, dbfault, rows) ==
    LET found == {r \in not_deleted(rows) : r.id = pathogen_id}
        existing_pathogen == CHOOSE r \in found : TRUE
        update_fields ==
            only_keys(data, {"name", "scientific_name", "description"})
        pathogen == assign(existing_pathogen, update_fields, now)
    IN  IF dbfault = "connect" THEN ConnectFailed(rows)
        ELSE IF found = {}
        THEN DbDid(404, [error |-> "Pathogen not found"], rows,
                   Closed(Statements("pathogens", <<"select">>)))
        ELSE IF DOMAIN update_fields = {}
        THEN DbDid(400, [error |-> "No fields to update"], rows,
                   Closed(Statements("pathogens", <<"select">>)))
        ELSE IF \/ dbfault = "update"
                \/ /\ "name" \in DOMAIN update_fields
                   /\ name_taken(rows, pathogen_id, data.name)
        THEN WriteFailed("Failed to update pathogen", rows,
                         Statements("pathogens", <<"select", "update">>))
        ELSE DbDid(200, pathogen,
                   replace_row(rows, existing_pathogen, pathogen),
                   Committed(Statements("pathogens", <<"select", "update">>)))

\* the soft delete without its cascade protection
pathogen_delete_unprotected(pathogen_id, dbfault, rows, project_rows) ==
    LET found == {r \in not_deleted(rows) : r.id = pathogen_id}
        existing_pathogen == CHOOSE r \in found : TRUE
    IN  IF dbfault = "connect" THEN ConnectFailed(rows)
        ELSE IF found = {}
        THEN DbDid(404, [error |-> "Pathogen not found"], rows,
                   Closed(Statements("pathogens", <<"select">>)))
        ELSE DbDid(204, "",
                   replace_row(rows, existing_pathogen,
                       [existing_pathogen EXCEPT !.deleted_at = Timestamp]),
                   Committed(Statements("pathogens", <<"select", "update">>)))

\* PathogenDetail.delete: the pathogen must be there and not deleted, no
\* non-deleted project may reference it, then UPDATE ... SET deleted_at
pathogen_delete(pathogen_id, dbfault, rows, project_rows) ==
    LET found == {r \in not_deleted(rows) : r.id = pathogen_id}
        existing_pathogen == CHOOSE r \in found : TRUE
        count == Cardinality({p \in not_deleted(project_rows) :
                                 p.pathogen_id = pathogen_id})
        select2 == Statements("pathogens", <<"select">>)
                       \o <<DbCall("select", "projects")>>
        update == select2 \o <<DbCall("update", "pathogens")>>
    IN  IF dbfault = "connect" THEN ConnectFailed(rows)
        ELSE IF found = {}
        THEN DbDid(404, [error |-> "Pathogen not found"], rows,
                   Closed(Statements("pathogens", <<"select">>)))
        ELSE IF count > 0
        THEN DbDid(409, [error |-> "Cannot delete pathogen"], rows,
                   Closed(select2))
        ELSE IF dbfault = "update"
        THEN WriteFailed("Failed to delete pathogen", rows, update)
        ELSE DbDid(204, "",
                   replace_row(rows, existing_pathogen,
                       [existing_pathogen EXCEPT !.deleted_at = Timestamp]),
                   Committed(update))

\* LEFT JOIN pathogens pat ON p.pathogen_id = pat.id: the joined name, NULL
\* when no row of the given pathogens matches
pathogen_name(project, pathogen_rows) ==
    LET pat == {r \in pathogen_rows : r.id = project.pathogen_id}
    IN  IF pat = {} THEN None ELSE (CHOOSE r \in pat : TRUE).name

\* ProjectList.get: ... LEFT JOIN pathogens ... WHERE p.deleted_at IS NULL
project_list(dbfault, rows, pathogen_rows) ==
    IF dbfault = "connect" THEN ConnectFailed(rows)
    ELSE DbDid(200,
               {p @@ [pathogen_name |-> pathogen_name(p, pathogen_rows)] :
                    p \in not_deleted(rows)},
               rows, Closed(Statements("projects", <<"select">>)))

\* ProjectDetail.get: the project and its pathogen, both not deleted
project_get(project_id, dbfault, rows, pathogen_rows) ==
    LET found == {r \in not_deleted(rows) : r.id = project_id}
        project == CHOOSE r \in found : TRUE
        issued == Closed(Statements("projects", <<"select">>))
    IN  IF dbfault = "connect" THEN ConnectFailed(rows)
        ELSE IF found = {}
        THEN DbDid(404, [error |-> "Project not found"], rows, issued)
        ELSE DbDid(200,
                   project @@ [pathogen_name |->
                       pathogen_name(project, not_deleted(pathogen_rows))],
                   rows, issued)

\* ProjectDetail.patch: the project must be there and not deleted; a
\* pathogen_id in the body, when truthy, must name a pathogen that is not
\* deleted; UPDATE of the fields the body has, and of updated_at
project_patch(project_id, data, now, dbfault, rows, pathogen_rows) ==
    LET found == {r \in not_deleted(rows) : r.id = project_id}
        existing_project == CHOOSE r \in found : TRUE
        update_fields == only_keys(data, {"name", "description", "pathogen_id"})
        project == assign(existing_project, update_fields, now)
        verify == /\ "pathogen_id" \in DOMAIN update_fields
                  /\ data.pathogen_id # NoId
        select == Statements("projects", <<"select">>)
        select2 == IF verify THEN select \o <<DbCall("select", "pathogens")>>
                   ELSE select
        update == select2 \o <<DbCall("update", "projects")>>
    IN  IF dbfault = "connect" THEN ConnectFailed(rows)
        ELSE IF found = {}
        THEN DbDid(404, [error |-> "Project not found"], rows, Closed(select))
        ELSE IF /\ verify
                /\ ~ \E r \in not_deleted(pathogen_rows) :
                        r.id = data.pathogen_id
        THEN DbDid(400, [error |-> "Pathogen not found"], rows,
                   Closed(select2))
        ELSE IF DOMAIN update_fields = {}
        THEN DbDid(400, [error |-> "No fields to update"], rows,
                   Closed(select))
        ELSE IF dbfault = "update"
        THEN WriteFailed("Failed to update project", rows, update)
        ELSE IF project.pathogen_id = NoId
        THEN DbDid(200, project, replace_row(rows, existing_project, project),
                   Committed(update))
        ELSE DbDid(200,
                   project @@ [pathogen_name |->
                                   pathogen_name(project, pathogen_rows)],
                   replace_row(rows, existing_project, project),
                   Committed(update \o <<DbCall("select", "pathogens")>>))

\* the soft delete without its cascade protection
project_delete_unprotected(project_id, dbfault, rows, study_rows) ==
    LET found == {r \in not_deleted(rows) : r.id = project_id}
        existing_project == CHOOSE r \in found : TRUE
    IN  IF dbfault = "connect" THEN ConnectFailed(rows)
        ELSE IF found = {}
        THEN DbDid(404, [error |-> "Project not found"], rows,
                   Closed(Statements("projects", <<"select">>)))
        ELSE DbDid(204, "",
                   replace_row(rows, existing_project,
                       [existing_project EXCEPT !.deleted_at = Timestamp]),
                   Committed(Statements("projects", <<"select", "update">>)))

\* a soft delete that also retracts the project's resource at Keycloak
project_delete_retracting(project_id, dbfault, rows, study_rows) ==
    LET did == project_delete_unprotected(project_id, dbfault, rows,
                                          study_rows)
    IN  IF did.status = 204
        THEN [did EXCEPT !.calls =
                  @ \o <<TokenCall, KcCall("delete_resource", <<>>)>>]
        ELSE did

\* ProjectDetail.delete: the project must be there and not deleted, no
\* non-deleted study may reference it, then UPDATE ... SET deleted_at
project_delete(project_id, dbfault, rows, study_rows) ==
    LET found == {r \in not_deleted(rows) : r.id = project_id}
        existing_project == CHOOSE r \in found : TRUE
        count == Cardinality({st \in not_deleted(study_rows) :
                                 st.project_id = project_id})
        select2 == Statements("projects", <<"select">>)
                       \o <<DbCall("select", "studies")>>
        update == select2 \o <<DbCall("update", "projects")>>
    IN  IF dbfault = "connect" THEN ConnectFailed(rows)
        ELSE IF found = {}
        THEN DbDid(404, [error |-> "Project not found"], rows,
                   Closed(Statements("projects", <<"select">>)))
        ELSE IF count > 0
        THEN DbDid(409, [error |-> "Cannot delete project"], rows,
                   Closed(select2))
        ELSE IF dbfault = "update"
        THEN WriteFailed("Failed to delete project", rows, update)
        ELSE DbDid(204, "",
                   replace_row(rows, existing_project,
                       [existing_project EXCEPT !.deleted_at = Timestamp]),
                   Committed(update))

\* SELECT s.*, p.slug as project_slug FROM studies s JOIN projects p ON
\* s.project_id = p.id, with song_created = False added to every row
studies_with_flags(study_rows, project_rows) ==
    {sp[1] @@ [project_slug |-> sp[2].slug, song_created |-> PyFalse] :
        sp \in {pair \in study_rows \X project_rows :
                   pair[1].project_id = pair[2].id}}

\* StudyList.get: the join, ORDER BY s.name
study_list(dbfault, rows, project_rows) ==
    IF dbfault = "connect" THEN ConnectFailed(rows)
    ELSE DbDid(200, studies_with_flags(rows, project_rows), rows,
               Closed(Statements("studies", <<"select">>)))

\* ProjectStudies.get: SELECT id FROM projects WHERE slug = %s, then the
\* join WHERE p.slug = %s
project_studies(project_slug, dbfault, rows, project_rows) ==
    LET project == {p \in project_rows : p.slug = project_slug}
        select == Statements("projects", <<"select">>)
    IN  IF dbfault = "connect" THEN ConnectFailed(rows)
        ELSE IF project = {}
        THEN DbDid(404, [error |-> "Project not found"], rows, Closed(select))
        ELSE DbDid(200, studies_with_flags(rows, project), rows,
                   Closed(select \o <<DbCall("select", "studies")>>))

\* StudyDetail.get: the join WHERE s.study_id = %s
study_get(study_id, dbfault, rows, project_rows) ==
    LET found == {st \in studies_with_flags(rows, project_rows) :
                     st.study_id = study_id}
        issued == Closed(Statements("studies", <<"select">>))
    IN  IF dbfault = "connect" THEN ConnectFailed(rows)
        ELSE IF found = {}
        THEN DbDid(404, [error |-> "Study not found"], rows, issued)
        ELSE DbDid(200, CHOOSE st \in found : TRUE, rows, issued)

\* StudyDetail.put: SELECT * FROM studies WHERE study_id = %s; a project_id
\* that is truthy and differs must name a project; UPDATE ... SET name,
\* description, project_id, updated_at WHERE study_id = %s; data['name']
\* raises when the body has no name
study_put(study_id, data, now, dbfault, rows, project_rows) ==
    LET found == {r \in rows : r.study_id = study_id}
        existing_study == CHOOSE r \in found : TRUE
        asked == DictGet(data, "project_id", NoId)
        verify == asked # NoId /\ asked # existing_study.project_id
        study ==
            assign(existing_study,
                   [name |-> data.name,
                    description |-> DictGet(data, "description", None),
                    project_id |-> DictGet(data, "project_id",
                                           existing_study.project_id)],
                   now)
        select == Statements("studies", <<"select">>)
        checked == IF verify
                   THEN select \o <<DbCall("select", "projects")>>
                   ELSE select
        update == checked \o <<DbCall("update", "studies")>>
    IN  IF dbfault = "connect" THEN ConnectFailed(rows)
        ELSE IF found = {}
        THEN DbDid(404, [error |-> "Study not found"], rows, Closed(select))
        ELSE IF verify /\ ~ \E p \in project_rows : p.id = asked
        THEN DbDid(400, [error |-> "Project not found"], rows, Closed(checked))
        ELSE IF "name" \notin DOMAIN data
        THEN WriteFailed("Failed to update study", rows, checked)
        ELSE IF dbfault = "update"
        THEN WriteFailed("Failed to update study", rows, update)
        ELSE DbDid(200, study @@ [song_created |-> PyFalse],
                   replace_row(rows, existing_study, study),
                   Committed(update))

\* a DELETE that removes the row
study_delete_hard(study_id, dbfault, rows) ==
    LET found == {r \in not_deleted(rows) : r.study_id = study_id}
    IN  IF dbfault = "connect" THEN ConnectFailed(rows)
        ELSE IF found = {}
        THEN DbDid(404, [error |-> "Study not found"], rows,
                   Closed(Statements("studies", <<"select">>)))
        ELSE DbDid(204, "", rows \ found,
                   Committed(Statements("studies", <<"select", "delete">>)))

\* StudyDetail.delete: the study must be there and not deleted, then UPDATE
\* ... SET deleted_at
study_delete(study_id, dbfault, rows) ==
    LET found == {r \in not_deleted(rows) : r.study_id = study_id}
        existing_study == CHOOSE r \in found : TRUE
        update == Statements("studies", <<"select", "update">>)
    IN  IF dbfault = "connect" THEN ConnectFailed(rows)
        ELSE IF found = {}
        THEN DbDid(404, [error |-> "Study not found"], rows,
                   Closed(Statements("studies", <<"select">>)))
        ELSE IF dbfault = "update"
        THEN WriteFailed("Failed to delete study", rows, update)
        ELSE DbDid(204, "",
                   replace_row(rows, existing_study,
                       [existing_study EXCEPT !.deleted_at = Timestamp]),
                   Committed(update))

-----------------------------------------------------------------------------
(* The entity endpoints together, with Keycloak and SONG serving every call *)

\* the requests of the entity endpoints: without a header, or with a JWT
\* whose exchange yields both folio scopes or no permission at all
CrudHeaders ==
    {NoHeader, [present |-> TRUE, value |-> <<"Bearer", " ", "jwtAlice">>]}

CrudRptAnswers ==
    {[kind |-> "http", status |-> 200,
      body |-> JsonList(<<[rsname |-> <<"folio">>,
                           scopes |-> << <<"READ">>, <<"WRITE">> >>]>>)],
     [kind |-> "http", status |-> 200, body |-> JsonList(<<>>)]}

CrudNames    == {"Malaria", "Cholera"}
CrudSlugs    == {<<"alpha">>, <<"beta">>}
CrudStudyIds == {<<"cohort">>}
CrudDbFaults == {"none", "connect"}

\* the handlers that write also meet a statement that raises
CrudWriteFaults == {"none", "connect", "update"}
CrudCreateFaults == {"none", "connect", "insert", "commit"}

\* every provisioning step is served
AllOk(step_names) == [st \in step_names |-> "ok"]

\* identifiers a path can carry: those of the rows, and one that no row has
IdsOf(rows) == 1..(Cardinality(rows) + 1)

\* a guard rejected the request: its response, nothing else happens
Rejected(op, required, header, resp, guard) ==
    /\ last' = Guarded(op, header, required, resp, guard, 0, NoSteps)
                 @@ [env |-> NoEnv, steps |-> NoSteps]
    /\ calls' = guard.calls
    /\ UNCHANGED <<storeVars, downstreamVars, inflight>>

\* the handler ran: its response and its calls
Answer(op, required, header, resp, guard, env, did) ==
    /\ last' = Guarded(op, header, required, resp, guard, did.status,
                       did.body)
                 @@ [env |-> env, steps |-> NoSteps]
    /\ calls' = guard.calls \o did.calls
    /\ UNCHANGED <<downstreamVars, inflight>>

PathogenList_get ==
    /\ last.op = "none"
    /\ \E header \in CrudHeaders :
       \E resp \in ExchangeAnswers(header, CrudRptAnswers) :
       \E guard \in {authenticate_token(header, resp)} :
        IF ~guard.passed
        THEN Rejected("PathogenList.get", <<>>, header, resp, guard)
        ELSE \E dbfault \in CrudDbFaults :
             \E did \in {pathogen_list(dbfault, pathogens)} :
                /\ Answer("PathogenList.get", <<>>, header, resp, guard,
                          [dbfault |-> dbfault], did)
                /\ UNCHANGED storeVars

PathogenDetail_get ==
    /\ last.op = "none"
    /\ \E header \in CrudHeaders :
       \E resp \in ExchangeAnswers(header, CrudRptAnswers) :
       \E guard \in {authenticate_token(header, resp)} :
        IF ~guard.passed
        THEN Rejected("PathogenDetail.get", <<>>, header, resp, guard)
        ELSE \E pathogen_id \in IdsOf(pathogens), dbfault \in CrudDbFaults :
             \E did \in {pathogen_get(pathogen_id, dbfault, pathogens)} :
                /\ Answer("PathogenDetail.get", <<>>, header, resp, guard,
                          [dbfault |-> dbfault, id |-> pathogen_id], did)
                /\ UNCHANGED storeVars

PathogenDetail_put_on(bodies, clock) ==
    /\ last.op = "none"
    /\ \E header \in CrudHeaders :
       \E resp \in ExchangeAnswers(header, CrudRptAnswers) :
       \E guard \in {require_permissions(WriteScope, header, resp)} :
        IF ~guard.passed
        THEN Rejected("PathogenDetail.put", WriteScope, header, resp, guard)
        ELSE \E pathogen_id \in IdsOf(pathogens), data \in bodies,
                now \in clock, dbfault \in CrudWriteFaults :
             \E did \in {pathogen_put(pathogen_id, data, now, dbfault,
                                      pathogens)} :
                /\ Answer("PathogenDetail.put", WriteScope, header, resp,
                          guard,
                          [dbfault |-> dbfault, id |-> pathogen_id,
                           data |-> data, now |-> now], did)
                /\ pathogens' = did.rows
                /\ UNCHANGED <<projects, studies>>

PathogenDetail_put ==
    PathogenDetail_put_on({[name |-> n] : n \in CrudNames}, {Timestamp})

PathogenDetail_patch_on(bodies, clock) ==
    /\ last.op = "none"
    /\ \E header \in CrudHeaders :
       \E resp \in ExchangeAnswers(header, CrudRptAnswers) :
       \E guard \in {require_permissions(WriteScope, header, resp)} :
        IF ~guard.passed
        THEN Rejected("PathogenDetail.patch", WriteScope, header, resp, guard)
        ELSE \E pathogen_id \in IdsOf(pathogens), data \in bodies,
                now \in clock, dbfault \in CrudWriteFaults :
             \E did \in {pathogen_patch(pathogen_id, data, now, dbfault,
                                        pathogens)} :
                /\ Answer("PathogenDetail.patch", WriteScope, header, resp,
                          guard,
                          [dbfault |-> dbfault, id |-> pathogen_id,
                           data |-> data, now |-> now], did)
                /\ pathogens' = did.rows
                /\ UNCHANGED <<projects, studies>>

PathogenDetail_patch ==
    PathogenDetail_patch_on(
        {PyEmptyDict} \cup {[name |-> n] : n \in CrudNames}, {Timestamp})

PathogenDetail_delete ==
    /\ last.op = "none"
    /\ \E header \in CrudHeaders :
       \E resp \in ExchangeAnswers(header, CrudRptAnswers) :
       \E guard \in {require_permissions(WriteScope, header, resp)} :
        IF ~guard.passed
        THEN Rejected("PathogenDetail.delete", WriteScope, header, resp,
                      guard)
        ELSE \E pathogen_id \in IdsOf(pathogens), dbfault \in CrudWriteFaults :
             \E did \in {pathogen_delete(pathogen_id, dbfault, pathogens,
                                         projects)} :
                /\ Answer("PathogenDetail.delete", WriteScope, header, resp,
                          guard,
                          [dbfault |-> dbfault, id |-> pathogen_id], did)
                /\ pathogens' = did.rows
                /\ UNCHANGED <<projects, studies>>

ProjectList_get ==
    /\ last.op = "none"
    /\ \E header \in CrudHeaders :
       \E resp \in ExchangeAnswers(header, CrudRptAnswers) :
       \E guard \in {require_permissions(ReadScope, header, resp)} :
        IF ~guard.passed
        THEN Rejected("ProjectList.get", ReadScope, header, resp, guard)
        ELSE \E dbfault \in CrudDbFaults :
             \E did \in {project_list(dbfault, projects, pathogens)} :
                /\ Answer("ProjectList.get", ReadScope, header, resp, guard,
                          [dbfault |-> dbfault], did)
                /\ UNCHANGED storeVars

ProjectDetail_get ==
    /\ last.op = "none"
    /\ \E header \in CrudHeaders :
       \E resp \in ExchangeAnswers(header, CrudRptAnswers) :
       \E guard \in {require_permissions(ReadScope, header, resp)} :
        IF ~guard.passed
        THEN Rejected("ProjectDetail.get", ReadScope, header, resp, guard)
        ELSE \E project_id \in IdsOf(projects), dbfault \in CrudDbFaults :
             \E did \in {project_get(project_id, dbfault, projects,
                                     pathogens)} :
                /\ Answer("ProjectDetail.get", ReadScope, header, resp, guard,
                          [dbfault |-> dbfault, id |-> project_id], did)
                /\ UNCHANGED storeVars

ProjectDetail_patch_on(bodies, clock) ==
    /\ last.op = "none"
    /\ \E header \in CrudHeaders :
       \E resp \in ExchangeAnswers(header, CrudRptAnswers) :
       \E guard \in {require_permissions(WriteScope, header, resp)} :
        IF ~guard.passed
        THEN Rejected("ProjectDetail.patch", WriteScope, header, resp, guard)
        ELSE \E project_id \in IdsOf(projects), data \in bodies,
                now \in clock, dbfault \in CrudWriteFaults :
             \E did \in {project_patch(project_id, data, now, dbfault,
                                       projects, pathogens)} :
                /\ Answer("ProjectDetail.patch", WriteScope, header, resp,
                          guard,
                          [dbfault |-> dbfault, id |-> project_id,
                           data |-> data, now |-> now], did)
                /\ projects' = did.rows
                /\ UNCHANGED <<pathogens, studies>>

ProjectDetail_patch ==
    ProjectDetail_patch_on(
        {PyEmptyDict} \cup {[pathogen_id |-> i] : i \in IdsOf(pathogens)},
        {Timestamp})

ProjectDetail_delete ==
    /\ last.op = "none"
    /\ \E header \in CrudHeaders :
       \E resp \in ExchangeAnswers(header, CrudRptAnswers) :
       \E guard \in {require_permissions(WriteScope, header, resp)} :
        IF ~guard.passed
        THEN Rejected("ProjectDetail.delete", WriteScope, header, resp, guard)
        ELSE \E project_id \in IdsOf(projects), dbfault \in CrudWriteFaults :
             \E did \in {project_delete(project_id, dbfault, projects,
                                        studies)} :
                /\ Answer("ProjectDetail.delete", WriteScope, header, resp,
                          guard,
                          [dbfault |-> dbfault, id |-> project_id], did)
                /\ projects' = did.rows
                /\ UNCHANGED <<pathogens, studies>>

ProjectStudies_get ==
    /\ last.op = "none"
    /\ \E header \in CrudHeaders :
       \E resp \in ExchangeAnswers(header, CrudRptAnswers) :
       \E guard \in {require_permissions(ReadScope, header, resp)} :
        IF ~guard.passed
        THEN Rejected("ProjectStudies.get", ReadScope, header, resp, guard)
        ELSE \E project_slug \in CrudSlugs, dbfault \in CrudDbFaults :
             \E did \in {project_studies(project_slug, dbfault, studies,
                                         projects)} :
                /\ Answer("ProjectStudies.get", ReadScope, header, resp,
                          guard,
                          [dbfault |-> dbfault, id |-> project_slug], did)
                /\ UNCHANGED storeVars

StudyList_get ==
    /\ last.op = "none"
    /\ \E header \in CrudHeaders :
       \E resp \in ExchangeAnswers(header, CrudRptAnswers) :
       \E guard \in {require_permissions(ReadScope, header, resp)} :
        IF ~guard.passed
        THEN Rejected("StudyList.get", ReadScope, header, resp, guard)
        ELSE \E dbfault \in CrudDbFaults :
             \E did \in {study_list(dbfault, studies, projects)} :
                /\ Answer("StudyList.get", ReadScope, header, resp, guard,
                          [dbfault |-> dbfault], did)
                /\ UNCHANGED storeVars

StudyDetail_get ==
    /\ last.op = "none"
    /\ \E header \in CrudHeaders :
       \E resp \in ExchangeAnswers(header, CrudRptAnswers) :
       \E guard \in {require_permissions(ReadScope, header, resp)} :
        IF ~guard.passed
        THEN Rejected("StudyDetail.get", ReadScope, header, resp, guard)
        ELSE \E study_id \in CrudStudyIds, dbfault \in CrudDbFaults :
             \E did \in {study_get(study_id, dbfault, studies, projects)} :
                /\ Answer("StudyDetail.get", ReadScope, header, resp, guard,
                          [dbfault |-> dbfault, id |-> study_id], did)
                /\ UNCHANGED storeVars

StudyDetail_put_on(bodies, clock) ==
    /\ last.op = "none"
    /\ \E header \in CrudHeaders :
       \E resp \in ExchangeAnswers(header, CrudRptAnswers) :
       \E guard \in {require_permissions(WriteScope, header, resp)} :
        IF ~guard.passed
        THEN Rejected("StudyDetail.put", WriteScope, header, resp, guard)
        ELSE \E study_id \in CrudStudyIds, data \in bodies, now \in clock,
                dbfault \in CrudWriteFaults :
             \E did \in {study_put(study_id, data, now, dbfault, studies,
                                   projects)} :
                /\ Answer("StudyDetail.put", WriteScope, header, resp, guard,
                          [dbfault |-> dbfault, id |-> study_id,
                           data |-> data, now |-> now], did)
                /\ studies' = did.rows
                /\ UNCHANGED <<pathogens, projects>>

StudyDetail_put ==
    StudyDetail_put_on(
        {[name |-> "Cohort", project_id |-> i] : i \in IdsOf(projects)},
        {Timestamp})

StudyDetail_delete ==
    /\ last.op = "none"
    /\ \E header \in CrudHeaders :
       \E resp \in ExchangeAnswers(header, CrudRptAnswers) :
       \E guard \in {require_permissions(WriteScope, header, resp)} :
        IF ~guard.passed
        THEN Rejected("StudyDetail.delete", WriteScope, header, resp, guard)
        ELSE \E study_id \in CrudStudyIds, dbfault \in CrudWriteFaults :
             \E did \in {study_delete(study_id, dbfault, studies)} :
                /\ Answer("StudyDetail.delete", WriteScope, header, resp,
                          guard, [dbfault |-> dbfault, id |-> study_id], did)
                /\ studies' = did.rows
                /\ UNCHANGED <<pathogens, projects>>

PathogenList_post_served ==
    PathogenList_post_on(CrudHeaders, CrudRptAnswers, CrudNames, CrudCreateFaults)

ProjectList_post_served ==
    ProjectList_post_on(CrudHeaders, CrudRptAnswers, CrudSlugs, CrudCreateFaults,
                        {AllOk(ProjectSteps)})

StudyList_post_served ==
    StudyList_post_on(CrudHeaders, CrudRptAnswers, CrudStudyIds, CrudCreateFaults,
                      {AllOk(StudySteps)})

NextCrud ==
    \/ PathogenList_get
    \/ PathogenList_post_served
    \/ PathogenDetail_get
    \/ PathogenDetail_put
    \/ PathogenDetail_patch
    \/ PathogenDetail_delete
    \/ ProjectList_get
    \/ ProjectList_post_served
    \/ ProjectDetail_get
    \/ ProjectDetail_patch
    \/ ProjectDetail_delete
    \/ ProjectStudies_get
    \/ StudyList_get
    \/ StudyList_post_served
    \/ StudyDetail_get
    \/ StudyDetail_put
    \/ StudyDetail_delete
    \/ teardown_request

SpecCrud == Init /\ [][NextCrud]_vars

-----------------------------------------------------------------------------
(* Updates of rows that carry their columns *)

\* the last reading of the store's clock
MaxClock == 3

\* the store after two pathogens, a project and a study were created at
\* time 0 and the second pathogen was soft-deleted
InitUpdate ==
    /\ last = NoRequest
    /\ calls = <<>>
    /\ pathogens =
         {[id |-> 1, name |-> "Malaria", scientific_name |-> "Plasmodium",
           description |-> None, updated_at |-> 0, deleted_at |-> None],
          [id |-> 2, name |-> "Cholera", scientific_name |-> None,
           description |-> "text", updated_at |-> 0,
           deleted_at |-> Timestamp]}
    /\ projects =
         {[id |-> 1, slug |-> <<"alpha">>, name |-> "Alpha",
           description |-> "text", organization_id |-> "default-org",
           user_id |-> "alice", pathogen_id |-> 1, updated_at |-> 0,
           deleted_at |-> None]}
    /\ studies =
         {[id |-> 1, study_id |-> <<"cohort">>, name |-> "Cohort",
           description |-> "text", project_id |-> 1, updated_at |-> 0,
           deleted_at |-> None]}
    /\ kc_resources = {}
    /\ kc_groups = {}
    /\ kc_members = {}
    /\ song_studies = {}
    /\ kc_policy = [granted |-> {}, revoked |-> {}]
    /\ inflight = [w \in Workers |-> IdleWorker]

\* CURRENT_TIMESTAMP: a reading of the clock later than every stamp stored
current_timestamp ==
    {t \in 1..MaxClock :
        \A r \in pathogens \cup projects \cup studies : r.updated_at < t}

PathogenBodies ==
    {PyEmptyDict, [name |-> "Typhoid"], [description |-> "more"],
     [scientific_name |-> "Salmonella"],
     [name |-> "Typhoid", scientific_name |-> "Salmonella"]}

ProjectBodies ==
    {PyEmptyDict, [name |-> "Beta"], [description |-> "more"],
     [pathogen_id |-> 1], [pathogen_id |-> 2], [pathogen_id |-> NoId],
     [name |-> "Beta", pathogen_id |-> 1]}

StudyBodies ==
    {PyEmptyDict, [name |-> "Survey"], [description |-> "more"],
     [name |-> "Survey", description |-> "more"],
     [name |-> "Survey", project_id |-> 1],
     [name |-> "Survey", project_id |-> 2]}

PathogenDetail_put_columns ==
    PathogenDetail_put_on(PathogenBodies, current_timestamp)

PathogenDetail_patch_columns ==
    PathogenDetail_patch_on(PathogenBodies, current_timestamp)

ProjectDetail_patch_columns ==
    ProjectDetail_patch_on(ProjectBodies, current_timestamp)

StudyDetail_put_columns ==
    StudyDetail_put_on(StudyBodies, current_timestamp)

NextUpdate ==
    \/ PathogenDetail_put_columns
    \/ PathogenDetail_patch_columns
    \/ ProjectDetail_patch_columns
    \/ StudyDetail_put_columns
    \/ teardown_request

SpecUpdate == InitUpdate /\ [][NextUpdate]_vars

-----------------------------------------------------------------------------
(* The provisioning endpoints: POST .../resource and POST .../group *)

\* GET the UMA resources and search them by name, after a service token;
\* every failure is answered None
find_resource(name, fault, ext) ==
    IF fault = "token_fail" THEN Did(None, ext, <<TokenCall>>)
    ELSE LET issued == <<TokenCall, KcCall("list_resources", <<>>)>> IN
         IF fault = "call_fail" THEN Did(None, ext, issued)
         ELSE IF name \in ext.resources
         THEN Did(PyDict, ext, issued \o <<KcCall("get_resource", name)>>)
         ELSE Did(None, ext, issued)

get_project_resource(project_slug, fault, ext) ==
    find_resource(project_slug, fault, ext)

get_study_resource(study_id, fault, ext) == find_resource(study_id, fault, ext)

\* GET /groups and search them by name, after a service token
find_group(group_name, fault, ext) ==
    IF fault = "token_fail" THEN Did(None, ext, <<TokenCall>>)
    ELSE LET issued == <<TokenCall, KcCall("list_groups", <<>>)>> IN
         IF fault = "call_fail" THEN Did(None, ext, issued)
         ELSE IF group_name \in ext.groups THEN Did(PyDict, ext, issued)
         ELSE Did(None, ext, issued)

get_project_group(project_slug, fault, ext) ==
    find_group(<<"project", "-">> \o project_slug, fault, ext)

get_study_group(study_id, fault, ext) ==
    find_group(<<"study", "-">> \o study_id, fault, ext)

\* the umbrella group of a project: POST /groups, 201 -> the group, 409 ->
\* None, anything else -> False
create_project_group(project_slug, fault, ext) ==
    LET name == <<"project", "-">> \o project_slug IN
    IF fault = "token_fail" THEN Did(PyFalse, ext, <<TokenCall>>)
    ELSE LET issued == <<TokenCall, KcCall("create_group", name)>> IN
         IF fault = "call_fail" THEN Did(PyFalse, ext, issued)
         ELSE IF name \in ext.groups
         THEN Did(None, ext, issued)                                \* 409
         ELSE Did(PyDict, [ext EXCEPT !.groups = @ \cup {name}],
                  issued \o <<KcCall("get_group", name)>>)

\* len() of a path parameter
AtomLen(atom) == IF atom = "a" THEN 1 ELSE 5

RECURSIVE py_len(_)
py_len(s) == IF s = <<>> THEN 0 ELSE AtomLen(Head(s)) + py_len(Tail(s))

\* path parameters of the provisioning endpoints, one of them too short
PathKeys == {<<"alpha">>, <<"beta">>, <<"a">>}

\* the body of the four handlers: validate the key, look the target up,
\* create it, and answer by the helper's return value
ProvisioningPost(op, header, resp, guard, key, env, existing, result, exists_status) ==
    /\ UNCHANGED <<storeVars, inflight>>
    /\ IF py_len(key) < 2
       THEN /\ last' = Guarded(op, header, WriteScope, resp, guard, 400,
                               [error |-> "Invalid"])
                         @@ [env |-> env, steps |-> NoSteps]
            /\ calls' = guard.calls
            /\ UNCHANGED downstreamVars
       ELSE IF PyTruthy(existing.ret)
       THEN /\ last' = Guarded(op, header, WriteScope, resp, guard,
                               exists_status, [status |-> "exists"])
                         @@ [env |-> env, steps |-> NoSteps]
            /\ calls' = guard.calls \o existing.calls
            /\ UNCHANGED downstreamVars
       ELSE /\ last' = Guarded(op, header, WriteScope, resp, guard,
                               CASE result.ret = PyFalse -> 500
                                 [] result.ret = None -> 409
                                 [] OTHER -> 201,
                               CASE result.ret = PyFalse ->
                                        [error |-> "Failed to create"]
                                 [] result.ret = None ->
                                        [error |-> "already exists"]
                                 [] OTHER -> [status |-> "created"])
                         @@ [env |-> env, steps |-> NoSteps]
            /\ calls' = guard.calls \o existing.calls \o result.calls
            /\ SetExt(result.ext)

ProjectResource_post ==
    /\ last.op = "none"
    /\ \E header \in CrudHeaders :
       \E resp \in ExchangeAnswers(header, CrudRptAnswers) :
       \E guard \in {require_permissions(WriteScope, header, resp)} :
        IF ~guard.passed
        THEN Rejected("ProjectResource.post", WriteScope, header, resp, guard)
        ELSE \E project_slug \in PathKeys, lookup, fault \in StepOutcomes :
             \E existing_resource \in
                    {get_project_resource(project_slug, lookup, Ext)} :
             \E result \in {create_project_resource(project_slug, fault,
                                                    Ext)} :
                 ProvisioningPost("ProjectResource.post", header, resp, guard,
                     project_slug,
                     [key |-> project_slug, lookup |-> lookup,
                      fault |-> fault, before |-> Ext],
                     existing_resource, result, 200)

ProjectGroup_post ==
    /\ last.op = "none"
    /\ \E header \in CrudHeaders :
       \E resp \in ExchangeAnswers(header, CrudRptAnswers) :
       \E guard \in {require_permissions(WriteScope, header, resp)} :
        IF ~guard.passed
        THEN Rejected("ProjectGroup.post", WriteScope, header, resp, guard)
        ELSE \E project_slug \in PathKeys, lookup, fault \in StepOutcomes :
             \E existing_group \in
                    {get_project_group(project_slug, lookup, Ext)} :
             \E result \in {create_project_group(project_slug, fault, Ext)} :
                 ProvisioningPost("ProjectGroup.post", header, resp, guard,
                     project_slug,
                     [key |-> project_slug, lookup |-> lookup,
                      fault |-> fault, before |-> Ext],
                     existing_group, result, 200)

StudyResource_post ==
    /\ last.op = "none"
    /\ \E header \in CrudHeaders :
       \E resp \in ExchangeAnswers(header, CrudRptAnswers) :
       \E guard \in {require_permissions(WriteScope, header, resp)} :
        IF ~guard.passed
        THEN Rejected("StudyResource.post", WriteScope, header, resp, guard)
        ELSE \E study_id \in PathKeys, lookup, fault \in StepOutcomes :
             \E existing_resource \in
                    {get_study_resource(study_id, lookup, Ext)} :
             \E result \in {create_study_resource(study_id, fault, Ext)} :
                 ProvisioningPost("StudyResource.post", header, resp, guard,
                     study_id,
                     [key |-> study_id, lookup |-> lookup, fault |-> fault,
                      before |-> Ext],
                     existing_resource, result, 409)

StudyGroup_post ==
    /\ last.op = "none"
    /\ \E header \in CrudHeaders :
       \E resp \in ExchangeAnswers(header, CrudRptAnswers) :
       \E guard \in {require_permissions(WriteScope, header, resp)} :
        IF ~guard.passed
        THEN Rejected("StudyGroup.post", WriteScope, header, resp, guard)
        ELSE \E study_id \in PathKeys, lookup, fault \in StepOutcomes :
             \E existing_group \in {get_study_group(study_id, lookup, Ext)} :
             \E result \in {create_study_group(study_id, fault, Ext)} :
                 ProvisioningPost("StudyGroup.post", header, resp, guard,
                     study_id,
                     [key |-> study_id, lookup |-> lookup, fault |-> fault,
                      before |-> Ext],
                     existing_group, result, 409)

NextProvisioning ==
    \/ ProjectResource_post
    \/ ProjectGroup_post
    \/ StudyResource_post
    \/ StudyGroup_post
    \/ teardown_request

SpecProvisioning == Init /\ [][NextProvisioning]_vars

-----------------------------------------------------------------------------
(* The provisioning helpers, each called on its own against the broker *)

Permissions == {"read", "write", "admin"}

\* the call of one helper is over: what it was given, the broker's state it
\* found, and what it returned to its caller
HelperCall(helper, target, permission, created_name, fault, did) ==
    /\ last.op = "none"
    /\ last' = [NoRequest EXCEPT !.op = helper]
                 @@ [step |-> [target |-> target, permission |-> permission,
                               name |-> created_name, fault |-> fault,
                               before |-> Ext, ret |-> did.ret]]
    /\ calls' = did.calls
    /\ SetExt(did.ext)
    /\ UNCHANGED <<storeVars, inflight>>

create_project_resource_call ==
    \E project_slug \in Slugs, fault \in StepOutcomes :
    \E did \in {create_project_resource(project_slug, fault, Ext)} :
        HelperCall("create_project_resource", project_slug, "", project_slug,
                   fault, did)

create_study_resource_call ==
    \E study_id \in StudyIds, fault \in StepOutcomes :
    \E did \in {create_study_resource(study_id, fault, Ext)} :
        HelperCall("create_study_resource", study_id, "", study_id, fault, did)

create_project_group_with_permission_call ==
    \E project_slug \in Slugs, permission \in Permissions,
       fault \in StepOutcomes :
    \E did \in {create_project_group_with_permission(project_slug, permission,
                                                     fault, Ext)} :
        HelperCall("create_project_group_with_permission", project_slug,
                   permission, project_group_name(project_slug, permission),
                   fault, did)

create_study_group_with_permission_call ==
    \E study_id \in StudyIds, permission \in Permissions,
       fault \in StepOutcomes :
    \E did \in {create_study_group_with_permission(study_id, permission,
                                                   fault, Ext)} :
        HelperCall("create_study_group_with_permission", study_id,
                   permission, study_group_name(study_id, permission),
                   fault, did)

create_study_group_call ==
    \E study_id \in StudyIds, fault \in GroupStepOutcomes :
    \E did \in {create_study_group(study_id, fault, Ext)} :
        HelperCall("create_study_group", study_id, "",
                   <<"study", "-">> \o study_id, fault, did)

NextBroker ==
    \/ create_project_resource_call
    \/ create_study_resource_call
    \/ create_project_group_with_permission_call
    \/ create_study_group_with_permission_call
    \/ create_study_group_call
    \/ teardown_request

SpecBroker == Init /\ [][NextBroker]_vars

-----------------------------------------------------------------------------
(* The create handlers served concurrently, one transaction per request *)

CreateOps == {"PathogenList.post", "ProjectList.post", "StudyList.post"}

RaceNames    == {"Malaria"}
RaceSlugs    == {<<"alpha">>}
RaceStudyIds == {<<"cohort">>}

\* the committed rows of the table the handler inserts into
committed_rows(op) ==
    CASE op = "PathogenList.post" -> pathogens
      [] op = "ProjectList.post"  -> projects
      [] op = "StudyList.post"    -> studies

\* the unique column of the handler's table: name, slug, study_id
unique_key(op, row) ==
    CASE op = "PathogenList.post" -> row.name
      [] op = "ProjectList.post"  -> row.slug
      [] op = "StudyList.post"    -> row.study_id

\* the unique constraint refuses an INSERT whose key a committed row has
unique_violation(op, row) ==
    \E r \in committed_rows(op) : unique_key(op, r) = unique_key(op, row)

\* the INSERT waits while another transaction holds an uncommitted row with
\* the same key
waits_for_insert(w) ==
    \E v \in Workers \ {w} :
        /\ inflight[v].pc = "inserted"
        /\ inflight[v].op = inflight[w].op
        /\ unique_key(inflight[v].op, inflight[v].row)
               = unique_key(inflight[w].op, inflight[w].row)

\* the bodies a create request can carry, given the committed rows
create_bodies(op) ==
    CASE op = "PathogenList.post" -> {[name |-> name] : name \in RaceNames}
      [] op = "ProjectList.post"  ->
            {[slug |-> slug, pathogen_id |-> pathogen_id] :
                slug \in RaceSlugs,
                pathogen_id \in 1..(Cardinality(pathogens) + 1)}
      [] op = "StudyList.post"    ->
            {[study_id |-> study_id, project_id |-> project_id] :
                study_id \in RaceStudyIds,
                project_id \in 1..(Cardinality(projects) + 1)}

\* the handler from get_db_connection() through its INSERT, against the
\* committed rows
store_phase(op, g_user, data, dbfault) ==
    CASE op = "PathogenList.post" -> pathogen_insert(data, dbfault, pathogens)
      [] op = "ProjectList.post"  ->
            project_insert(g_user, data, dbfault, projects, pathogens)
      [] op = "StudyList.post"    ->
            study_insert(data, dbfault, studies, projects)

\* a request a worker has answered
Responded(op, data, passed, check_first, status, body) ==
    [pc |-> "done", op |-> op, data |-> data, passed |-> passed,
     check_first |-> check_first, status |-> status, body |-> body]

\* a worker takes a create request: the guard, the connection and the
\* existence checks, which see committed rows only
create_check(w) ==
    /\ inflight[w].pc = "idle"
    /\ \E op \in CreateOps, header \in CrudHeaders :
       \E resp \in ExchangeAnswers(header, CrudRptAnswers) :
       \E guard \in {require_permissions(WriteScope, header, resp)} :
        IF ~guard.passed
        THEN inflight' = [inflight EXCEPT ![w] =
                 Responded(op, NoSteps, FALSE, FALSE, guard.status, NoSteps)]
        ELSE \E data \in create_bodies(op) :
             \E st \in {store_phase(op, guard.g_user, data, "none")} :
             \E except \in {store_phase(op, guard.g_user, data, "insert")} :
                 IF ~st.inserted
                 THEN inflight' = [inflight EXCEPT ![w] =
                          Responded(op, data, FALSE, FALSE, st.status,
                                    st.body)]
                 ELSE inflight' = [inflight EXCEPT ![w] =
                          [pc |-> "checked", op |-> op, data |-> data,
                           passed |-> TRUE,
                           check_first |->
                               \A v \in Workers \ {w} :
                                   inflight[v].pc # "inserted",
                           row |-> st.row,
                           username |-> DictGet(guard.g_user, "username",
                                                "unknown"),
                           token |-> guard.g_token,
                           except |-> [status |-> except.status,
                                       body |-> except.body]]]
    /\ UNCHANGED <<last, calls, storeVars, downstreamVars>>

\* cur.execute(INSERT ...): the row stays uncommitted; a violated unique
\* constraint raises, and the handler's except branch rolls back and answers
create_insert(w) ==
    /\ inflight[w].pc = "checked"
    /\ ~waits_for_insert(w)
    /\ \E req \in {inflight[w]} :
        IF unique_violation(req.op, req.row)
        THEN inflight' = [inflight EXCEPT ![w] =
                 Responded(req.op, req.data, TRUE, req.check_first,
                           req.except.status, req.except.body)]
        ELSE inflight' = [inflight EXCEPT ![w].pc = "inserted"]
    /\ UNCHANGED <<last, calls, storeVars, downstreamVars>>

\* the rest of the handler: conn.commit() and the provisioning of a project,
\* the provisioning and conn.commit() of a study, and the 201
create_commit(w) ==
    /\ inflight[w].pc = "inserted"
    /\ \E req \in {inflight[w]} :
       \E row \in {[req.row EXCEPT
                       !.id = Cardinality(committed_rows(req.op)) + 1]} :
        CASE req.op = "PathogenList.post" ->
                /\ pathogens' = pathogens \cup {row}
                /\ inflight' = [inflight EXCEPT ![w] =
                       Responded(req.op, req.data, TRUE, req.check_first,
                                 201, row)]
                /\ UNCHANGED <<projects, studies, downstreamVars>>
          [] req.op = "ProjectList.post" ->
                \E setup \in {setup_project_keycloak(row.slug, req.username,
                                  AllOk(ProjectSteps), Ext)} :
                \E r \in {project_respond(row, setup)} :
                    /\ projects' = projects \cup {row}
                    /\ SetExt(setup.ext)
                    /\ inflight' = [inflight EXCEPT ![w] =
                           Responded(req.op, req.data, TRUE, req.check_first,
                                     r.status, r.body)]
                    /\ UNCHANGED <<pathogens, studies>>
          [] req.op = "StudyList.post" ->
                \E setup \in {setup_study(row.study_id, req.token,
                                  AllOk(StudySteps), Ext)} :
                \E r \in {study_commit_respond(row, setup, "none", studies)} :
                    /\ studies' = r.rows
                    /\ SetExt(setup.ext)
                    /\ inflight' = [inflight EXCEPT ![w] =
                           Responded(req.op, req.data, TRUE, req.check_first,
                                     r.status, r.body)]
                    /\ UNCHANGED <<pathogens, projects>>
    /\ UNCHANGED <<last, calls>>

\* the response is sent and the worker is free again
create_return(w) ==
    /\ inflight[w].pc = "done"
    /\ inflight' = [inflight EXCEPT ![w] = IdleWorker]
    /\ UNCHANGED <<last, calls, storeVars, downstreamVars>>

NextRace ==
    \/ \E w \in Workers : create_check(w)
    \/ \E w \in Workers : create_insert(w)
    \/ \E w \in Workers : create_commit(w)
    \/ \E w \in Workers : create_return(w)

SpecRace == Init /\ [][NextRace]_vars

-----------------------------------------------------------------------------
(* A soft delete of a parent while a create that references it is in flight *)

ParentDeleteOps == {"PathogenDetail.delete", "ProjectDetail.delete"}

\* the handler from get_db_connection() through the COUNT of the children,
\* against the committed rows; 204 stands for "goes on to its UPDATE"
delete_phase(op, id) ==
    IF op = "PathogenDetail.delete"
    THEN pathogen_delete(id, "none", pathogens, projects)
    ELSE project_delete(id, "none", projects, studies)

\* UPDATE ... SET deleted_at = CURRENT_TIMESTAMP WHERE id = %s AND
\* deleted_at IS NULL on the committed rows: cur.rowcount and the table
soft_delete_update(id, rows) ==
    LET hit == {r \in not_deleted(rows) : r.id = id}
    IN  [rowcount |-> Cardinality(hit),
         rows |-> (rows \ hit)
                      \cup {[r EXCEPT !.deleted_at = Timestamp] : r \in hit}]

\* a worker takes a DELETE of a pathogen or a project: the guard, the
\* connection, the SELECT of the row and the COUNT of its children, which
\* see committed rows only; it notes the creates that are in flight
delete_check(w) ==
    /\ inflight[w].pc = "idle"
    /\ \E op \in ParentDeleteOps, header \in CrudHeaders :
       \E resp \in ExchangeAnswers(header, CrudRptAnswers) :
       \E guard \in {require_permissions(WriteScope, header, resp)} :
        IF ~guard.passed
        THEN inflight' = [inflight EXCEPT ![w] =
                 Responded(op, NoSteps, FALSE, FALSE, guard.status, NoSteps)]
        ELSE \E id \in IdsOf(committed_rows(
                          IF op = "PathogenDetail.delete"
                          THEN "PathogenList.post" ELSE "ProjectList.post")) :
             \E did \in {delete_phase(op, id)} :
                 IF did.status # 204
                 THEN inflight' = [inflight EXCEPT ![w] =
                          Responded(op, [id |-> id], TRUE, FALSE, did.status,
                                    did.body)]
                 ELSE inflight' = [inflight EXCEPT ![w] =
                          [pc |-> "counted", op |-> op, data |-> [id |-> id],
                           concurrent |->
                               {v \in Workers \ {w} :
                                   inflight[v].pc \in {"checked", "inserted"}}]]
    /\ UNCHANGED <<last, calls, storeVars, downstreamVars>>

\* the UPDATE of the soft delete, the rowcount check, conn.commit() and the
\* response
delete_commit(w) ==
    /\ inflight[w].pc = "counted"
    /\ \E req \in {inflight[w]} :
       \E upd \in {soft_delete_update(req.data.id,
                       IF req.op = "PathogenDetail.delete"
                       THEN pathogens ELSE projects)} :
          /\ IF req.op = "PathogenDetail.delete"
             THEN pathogens' = upd.rows /\ UNCHANGED projects
             ELSE projects' = upd.rows /\ UNCHANGED pathogens
          /\ inflight' = [inflight EXCEPT ![w] =
                 Responded(req.op, req.data, TRUE, FALSE,
                           IF upd.rowcount = 0 THEN 404 ELSE 204, "")
                     @@ [concurrent |-> req.concurrent]]
    /\ UNCHANGED <<last, calls, studies, downstreamVars>>

NextDeleteRace ==
    \/ \E w \in Workers : create_check(w)
    \/ \E w \in Workers : create_insert(w)
    \/ \E w \in Workers : create_commit(w)
    \/ \E w \in Workers : create_return(w)
    \/ \E w \in Workers : delete_check(w)
    \/ \E w \in Workers : delete_commit(w)

SpecDeleteRace == Init /\ [][NextDeleteRace]_vars

-----------------------------------------------------------------------------
(* Properties of the permission resolver and of the guards (SpecAuth) *)

Range(f) == {f[i] : i \in DOMAIN f}

RequirePermissionsOps ==
    {"AuthTestRead.get", "AuthTestWrite.get", "AuthTestAdmin.post",
     "require_permissions"}

GuardOps == RequirePermissionsOps \cup {"AuthTest.get"}

\* the exchange of the request was answered with a status other than 200 or
\* 207, or failed in transport
RptFailed(resp) ==
    \/ resp.kind = "transport_error"
    \/ resp.kind = "http" /\ resp.status \notin {200, 207}

\* the exchange of the request succeeded with this JSON array
RptSucceededWith(resp, items) ==
    /\ resp.kind = "http"
    /\ resp.status \in {200, 207}
    /\ resp.body = JsonList(items)

\* C1: a request with a bearer header whose RPT exchange is answered with a
\* status other than 200/207, or fails in transport, is answered 401 by
\* both guards and its handler is not executed.
C1_FailedExchangeIs401 ==
    (last.op \in GuardOps /\ has_bearer(last.header) /\ RptFailed(last.rpt))
        => (last.status = 401 /\ ~last.ran)

\* C2: an exchange that succeeds with an empty array authenticates the
\* caller with no granted scope, a failed exchange is answered 401, and the
\* resolver's results for the two differ.
C2_EmptyDistinctFromFailure ==
    /\ (last.op \in GuardOps /\ RptSucceededWith(last.rpt, <<>>))
           => /\ last.guard.resolved.valid
              /\ last.guard.resolved.payload.granted_scopes = {}
              /\ (last.op = "AuthTest.get" => last.ran)
    /\ (last.op \in GuardOps /\ has_bearer(last.header) /\ RptFailed(last.rpt))
           => /\ last.status = 401
              /\ last.guard.resolved #
                     validate_jwt_token(bearer_token(last.header),
                         [kind |-> "http", status |-> 200,
                          body |-> JsonList(<<>>)])

\* the scopes a guard requires, namespaced, in the order given
Namespaced(required) ==
    [i \in 1..Len(required) |-> formatted_scope(required[i])]

\* C3: require_permissions runs the handler iff every required scope, after
\* namespacing, is granted; otherwise it answers 403 without running the
\* handler and reports exactly the required scopes that are not granted.
C3_AllRequiredOrForbidden ==
    (last.op \in RequirePermissionsOps /\ last.guard.resolved.valid) =>
        LET granted == last.guard.resolved.payload.granted_scopes
            needed == Namespaced(last.required)
        IN  /\ last.ran <=> (Range(needed) \subseteq granted)
            /\ last.ran => last.status = 200
            /\ ~last.ran =>
                /\ last.status = 403
                /\ last.body.missing =
                       SelectSeq(needed, LAMBDA sc : sc \notin granted)

\* a 403 for two required scopes of which one is granted
C3_Witness ==
    /\ last.op \in RequirePermissionsOps
    /\ last.status = 403
    /\ Len(last.required) = 2
    /\ Len(last.guard.missing) = 1
    /\ \E i \in 1..2 : formatted_scope(last.required[i])
                           \in last.guard.resolved.payload.granted_scopes

\* the scope a required scope stands for: itself when it is already
\* qualified by a resource name, 'folio.<scope>' otherwise
Qualified(scope) ==
    IF "." \in Range(scope) THEN scope ELSE <<"folio", ".">> \o scope

\* C4: a required scope without a resource prefix is checked as
\* 'folio.<scope>'; one that is already qualified by a resource name
\* ('project-alpha.WRITE') is checked against the granted set unchanged.
C4_QualifiedScopeUnchanged ==
    (last.op \in RequirePermissionsOps /\ last.guard.resolved.valid) =>
        LET granted == last.guard.resolved.payload.granted_scopes
            checked == {Qualified(last.required[i]) :
                            i \in 1..Len(last.required)}
        IN  /\ last.ran <=> (checked \subseteq granted)
            /\ ~last.ran => Range(last.guard.missing) = checked \ granted

\* C5: extract_scopes_from_rpt returns exactly the strings
\* '<resource name>.<scope>' of the permission objects of the answer, each
\* once however often the pair is repeated.
C5_GrantedScopesExact ==
    (/\ last.op \in GuardOps
     /\ last.rpt.kind = "http"
     /\ last.rpt.status \in {200, 207}
     /\ last.rpt.body.json = "list") =>
        LET items == last.rpt.body.items IN
        /\ last.guard.resolved.valid
        /\ last.guard.resolved.payload.granted_scopes =
               UNION {{DictGet(items[i], "rsname", <<>>) \o <<".">> \o sc :
                          sc \in Range(DictGet(items[i], "scopes", <<>>))} :
                      i \in 1..Len(items)}

\* an answer that repeats a (resource, scope) pair in two permission
\* objects, resolved to one element
C5_Witness ==
    /\ last.op \in GuardOps
    /\ last.rpt.kind = "http"
    /\ last.rpt.status \in {200, 207}
    /\ last.rpt.body.json = "list"
    /\ Len(last.rpt.body.items) = 2
    /\ last.rpt.body.items[1] = last.rpt.body.items[2]
    /\ DictGet(last.rpt.body.items[1], "scopes", <<>>) = << <<"READ">> >>
    /\ last.guard.resolved.payload.granted_scopes = {<<"folio", ".", "READ">>}

\* the header has the form 'Bearer <token>' with a non-empty token
WellFormedHeader(header) ==
    /\ header.present
    /\ startswith(header.value, <<"Bearer", " ">>)
    /\ Len(header.value) > 2

\* C6: a missing or malformed header is answered 401 'No token provided'
\* without an RPT exchange and without running the handler; a well-formed
\* header whose token the resolver rejects is answered 401 'Invalid token'.
C6_NoTokenNoExchange ==
    /\ (last.op \in GuardOps /\ ~WellFormedHeader(last.header)) =>
            /\ last.status = 401
            /\ last.body.error = "No token provided"
            /\ last.guard.calls = <<>>
            /\ ~last.ran
    /\ (last.op \in GuardOps /\ WellFormedHeader(last.header)
            /\ ~last.guard.resolved.valid) =>
            /\ last.status = 401
            /\ last.body.error = "Invalid token"

-----------------------------------------------------------------------------
(* Properties of the create endpoints (Spec) *)

\* the request issued this call
Issued(call) == \E i \in 1..Len(calls) : calls[i] = call

\* a call of the provisioning workflow: SONG, or an administrative call
\* against Keycloak (the guard's RPT exchange is not one)
IsProvisioning(call) ==
    \/ call.sys = "song"
    \/ call.sys = "keycloak" /\ call.op # "rpt_exchange"

\* the store did not fail in this request and the row was inserted
RowInserted(table) ==
    /\ Issued(DbCall("insert", table))
    /\ last.env.dbfault = "none"

\* C7: once the row of POST /projects or POST /studies is inserted, every
\* combination of failures of the SONG call and of the Keycloak steps ends
\* in 201 with the row in the store.
C7_ProvisioningFailuresKeep201 ==
    /\ (last.op = "ProjectList.post" /\ RowInserted("projects")) =>
            /\ last.status = 201
            /\ \E r \in projects : r.slug = last.env.data.slug
    /\ (last.op = "StudyList.post" /\ RowInserted("studies")) =>
            /\ last.status = 201
            /\ \E r \in studies : r.study_id = last.env.data.study_id

\* a study created while SONG and every Keycloak step failed
C7_Witness ==
    /\ last.op = "StudyList.post"
    /\ RowInserted("studies")
    /\ \A st \in StudySteps : last.env.faults[st] # "ok"
    /\ last.status = 201
    /\ \E r \in studies : r.study_id = last.env.data.study_id

\* C8: in POST /projects and POST /studies the row is committed before the
\* first provisioning call is issued.
C8_CommitBeforeProvisioning ==
    (last.op \in {"ProjectList.post", "StudyList.post"}) =>
        \A i \in 1..Len(calls) :
            IsProvisioning(calls[i]) =>
                \E j \in 1..(i - 1) : calls[j] = DbCall("commit", "")

\* C9: the 201 response of POST /projects carries keycloakCreated.resource,
\* true when the resource registration succeeded and false when Keycloak
\* could not be reached.
C9_ProjectResponseHasFlags ==
    (last.op = "ProjectList.post" /\ last.status = 201) =>
        /\ "keycloak_created" \in DOMAIN last.body
        /\ last.body.keycloak_created.resource
               = is_not_False(last.steps.resource)

\* C10: every 201 response of POST /studies has song_created and the three
\* booleans of keycloak_created; 'resource' and 'group' are true iff the
\* helper returned created or conflict, 'permissions' iff all three
\* permission groups did.
C10_StudyStatusFlags ==
    (last.op = "StudyList.post" /\ last.status = 201) =>
        LET flags == last.body.keycloak_created
            Succeeded(step) == last.steps[step] \in {PyDict, PyTrue, None}
        IN  /\ last.body.song_created \in {PyTrue, PyFalse}
            /\ DOMAIN flags = {"resource", "group", "permissions"}
            /\ \A k \in DOMAIN flags : flags[k] \in {PyTrue, PyFalse}
            /\ (flags.resource = PyTrue) <=> Succeeded("resource")
            /\ (flags.group = PyTrue) <=> Succeeded("group")
            /\ (flags.permissions = PyTrue) <=>
                   \A p \in {"read", "write", "admin"} : Succeeded(p)

\* a study whose resource already existed (conflict) and one of whose
\* permission groups could not be created
C10_Witness ==
    /\ last.op = "StudyList.post"
    /\ last.status = 201
    /\ last.steps.resource = None
    /\ last.body.keycloak_created.resource = PyTrue
    /\ last.steps.write = PyFalse
    /\ last.steps.read = PyTrue
    /\ last.body.keycloak_created.permissions = PyFalse

\* the SONG registration of this request was answered with this status
SongAnswered(statuses) ==
    /\ last.op = "StudyList.post"
    /\ RowInserted("studies")
    /\ last.env.song_status \in statuses

\* the Keycloak steps of POST /studies were all attempted
BrokerStepsAttempted ==
    /\ Issued(KcCall("create_resource", last.env.data.study_id))
          \/ last.env.faults["resource"] = "token_fail"
    /\ Issued(KcCall("create_group", <<"study", "-">> \o last.env.data.study_id))
          \/ last.env.faults["group"] = "token_fail"
    /\ \A p \in {"read", "write", "admin"} :
          \/ Issued(KcCall("create_group",
                           study_group_name(last.env.data.study_id, p)))
          \/ last.env.faults[p] = "token_fail"
    /\ Len(SelectSeq(calls, LAMBDA c : c = TokenCall)) = 5

\* C11 as claimed: a SONG answer that is non-2xx, a timeout or a transport
\* failure gives song_created = false, the Keycloak steps still attempted and
\* 201; every 2xx answer gives song_created = true.
C11_SongFlagFollows2xx ==
    /\ SongAnswered({0, 409}) =>
            /\ last.status = 201
            /\ last.body.song_created = PyFalse
            /\ BrokerStepsAttempted
    /\ SongAnswered({201, 204}) => last.body.song_created = PyTrue

\* C11 amended: as claimed for the failures; an answer of 200 or 201 gives
\* song_created = true, and a 2xx answer other than 200 and 201 gives
\* song_created = false, with the Keycloak steps attempted and 201 all the
\* same.
C11_SongFlagFollows200Or201 ==
    /\ SongAnswered({0, 409, 204}) =>
            /\ last.status = 201
            /\ last.body.song_created = PyFalse
            /\ BrokerStepsAttempted
    /\ SongAnswered({200, 201}) =>
            /\ last.status = 201
            /\ last.body.song_created = PyTrue
            /\ BrokerStepsAttempted

\* a study created with 201 although SONG could not be reached, with the
\* resource registered in Keycloak all the same
C11_Witness ==
    /\ SongAnswered({0})
    /\ last.status = 201
    /\ last.body.song_created = PyFalse
    /\ last.steps.resource = PyDict

-----------------------------------------------------------------------------
(* Properties of the provisioning helpers (SpecBroker) *)

ResourceHelpers == {"create_project_resource", "create_study_resource"}

GroupHelpers ==
    {"create_project_group_with_permission",
     "create_study_group_with_permission", "create_study_group"}

\* the helper's creation call was answered 409: the broker already had the
\* resource or group
Answered409 ==
    /\ last.step.fault \notin {"token_fail", "call_fail"}
    /\ \/ last.op \in ResourceHelpers
          /\ last.step.name \in last.step.before.resources
       \/ last.op \in GroupHelpers
          /\ last.step.name \in last.step.before.groups

\* the helper's creation call was answered 201
Answered201 ==
    /\ last.step.fault \notin {"token_fail", "call_fail"}
    /\ \/ last.op \in ResourceHelpers
          /\ last.step.name \notin last.step.before.resources
       \/ last.op \in GroupHelpers
          /\ last.step.name \notin last.step.before.groups

\* C12: a creation that the broker answers with 409 is reported to the
\* caller as a success, like the fresh creation (a value the caller's
\* 'if result:' takes for success), and leaves the broker's resources and
\* groups unchanged; a failed call is reported as an error.
C12_ConflictIsSuccess ==
    (last.op \in ResourceHelpers \cup GroupHelpers) =>
        /\ (Answered201 /\ last.step.fault = "ok") => PyTruthy(last.step.ret)
        /\ Answered409 =>
              /\ PyTruthy(last.step.ret)
              /\ Ext = last.step.before
        /\ last.step.fault \in {"token_fail", "call_fail"} =>
              /\ last.step.ret = PyFalse
              /\ Ext = last.step.before

-----------------------------------------------------------------------------
(* Properties of the entity endpoints (SpecCrud) *)

\* the handler of the request that just completed ran and the store served it
Served(op) ==
    /\ last'.op = op
    /\ last'.ran
    /\ last'.env.dbfault = "none"

SoftDeleted(row) == [row EXCEPT !.deleted_at = Timestamp]

\* C13: DELETE /pathogens/{id} of a pathogen that a non-deleted project
\* references is answered 409 and leaves the pathogen as it was; once no
\* non-deleted project references it any more, the DELETE is answered 204 and
\* sets deleted_at.
C13_PathogenDeleteProtected ==
    [][Served("PathogenDetail.delete") =>
        \A r \in not_deleted(pathogens) :
            r.id = last'.env.id =>
                IF \E p \in not_deleted(projects) : p.pathogen_id = r.id
                THEN /\ last'.status = 409
                     /\ pathogens' = pathogens
                ELSE /\ last'.status = 204
                     /\ pathogens' = replace_row(pathogens, r, SoftDeleted(r))
      ]_vars

\* a pathogen whose DELETE was refused because of a project, and that is
\* still not deleted
C13_Witness ==
    /\ last.op = "PathogenDetail.delete"
    /\ last.status = 409
    /\ \E r \in not_deleted(pathogens) :
          /\ r.id = last.env.id
          /\ \E p \in not_deleted(projects) : p.pathogen_id = r.id
          /\ \E p \in projects : p.deleted_at # None

\* C14: DELETE /projects/{id} of a project that a non-deleted study
\* references is answered 409 and leaves the project row as it was; it is
\* answered 204 only when no non-deleted study references the project.
C14_ProjectDeleteProtected ==
    [][Served("ProjectDetail.delete") =>
        LET referenced == \E st \in not_deleted(studies) :
                              st.project_id = last'.env.id
        IN  /\ \A r \in not_deleted(projects) :
                  (r.id = last'.env.id /\ referenced) =>
                      /\ last'.status = 409
                      /\ projects' = projects
            /\ last'.status = 204 =>
                  /\ ~referenced
                  /\ \E r \in not_deleted(projects) :
                        /\ r.id = last'.env.id
                        /\ projects' = replace_row(projects, r, SoftDeleted(r))
      ]_vars

\* a project whose DELETE was refused because of a study, and that is still
\* not deleted
C14_Witness ==
    /\ last.op = "ProjectDetail.delete"
    /\ last.status = 409
    /\ \E r \in not_deleted(projects) :
          /\ r.id = last.env.id
          /\ \E st \in not_deleted(studies) : st.project_id = r.id

\* C15: POST /projects with a free slug whose pathogen_id names no pathogen
\* that exists and is not deleted (a soft-deleted one included) is answered
\* 400, inserts no project row and issues no provisioning call.
C15_ProjectNeedsLivePathogen ==
    [][(/\ Served("ProjectList.post")
        /\ ~ \E p \in projects : p.slug = last'.env.data.slug
        /\ ~ \E r \in not_deleted(pathogens) :
                 r.id = last'.env.data.pathogen_id)
       => /\ last'.status = 400
          /\ projects' = projects
          /\ \A i \in 1..Len(calls') : ~IsProvisioning(calls'[i])
      ]_vars

\* the request found its unique key taken: 409, the table as it was, no
\* INSERT, no provisioning call, nothing created downstream
RefusedAsDuplicate(table, table_after) ==
    /\ last'.status = 409
    /\ table_after = table
    /\ \A i \in 1..Len(calls') :
          /\ calls'[i] # DbCall("insert", "pathogens")
          /\ calls'[i] # DbCall("insert", "projects")
          /\ calls'[i] # DbCall("insert", "studies")
          /\ ~IsProvisioning(calls'[i])
    /\ UNCHANGED downstreamVars

\* C16: POST /pathogens with a name, POST /projects with a slug, POST
\* /studies with a study_id that a row already has is answered 409, inserts
\* no row and issues no provisioning call; so is the repetition of a create
\* that succeeded.
C16_DuplicateKeyIs409 ==
    [][/\ (/\ Served("PathogenList.post")
           /\ \E r \in pathogens : r.name = last'.env.data.name)
          => RefusedAsDuplicate(pathogens, pathogens')
       /\ (/\ Served("ProjectList.post")
           /\ \E r \in projects : r.slug = last'.env.data.slug)
          => RefusedAsDuplicate(projects, projects')
       /\ (/\ Served("StudyList.post")
           /\ \E r \in studies : r.study_id = last'.env.data.study_id)
          => RefusedAsDuplicate(studies, studies')
      ]_vars

\* a POST /projects refused for the slug of a project that was created and
\* then soft-deleted
C16_Witness ==
    /\ last.op = "ProjectList.post"
    /\ last.status = 409
    /\ \E r \in projects :
          r.slug = last.env.data.slug /\ r.deleted_at # None

\* the request that just completed was served for an identifier that a
\* soft-deleted row of the table has
OnSoftDeleted(ops, rows, key) ==
    /\ \E op \in ops : Served(op)
    /\ \E r \in rows : key[r] = last'.env.id /\ r.deleted_at # None

PathogenDetailOps ==
    {"PathogenDetail.get", "PathogenDetail.put", "PathogenDetail.patch",
     "PathogenDetail.delete"}

ProjectDetailOps ==
    {"ProjectDetail.get", "ProjectDetail.patch", "ProjectDetail.delete"}

StudyDetailOps == {"StudyDetail.get", "StudyDetail.put", "StudyDetail.delete"}

\* C18: a read, update, patch or delete of one pathogen, project or study by
\* identifier that targets a soft-deleted entity is answered 404 and leaves
\* the soft-deleted row unchanged.
C18_SoftDeletedIs404 ==
    [][/\ OnSoftDeleted(PathogenDetailOps, pathogens,
                        [r \in pathogens |-> r.id])
          => (last'.status = 404 /\ pathogens' = pathogens)
       /\ OnSoftDeleted(ProjectDetailOps, projects,
                        [r \in projects |-> r.id])
          => (last'.status = 404 /\ projects' = projects)
       /\ OnSoftDeleted(StudyDetailOps, studies,
                        [r \in studies |-> r.study_id])
          => (last'.status = 404 /\ studies' = studies)
      ]_vars

ListOps ==
    {"PathogenList.get", "ProjectList.get", "StudyList.get",
     "ProjectStudies.get"}

\* C19: no list endpoint (GET /pathogens, GET /projects, GET /studies, GET
\* /projects/{slug}/studies) returns an entity whose deleted_at is set.
C19_ListsHideSoftDeleted ==
    (last.op \in ListOps /\ last.status = 200) =>
        \A entity \in last.body : entity.deleted_at = None

\* every row of the table is still there, and still deleted if it was
Kept(rows, rows_after) ==
    \A r \in rows :
        \E r2 \in rows_after :
            /\ r2.id = r.id
            /\ r.deleted_at # None => r2.deleted_at # None

\* C20: no operation removes a pathogen, project or study row from the
\* store, and once a row's deleted_at is set no later operation clears it.
C20_RowsKeptDeletionMonotone ==
    [][/\ Kept(pathogens, pathogens')
       /\ Kept(projects, projects')
       /\ Kept(studies, studies')
      ]_vars

\* a DELETE /studies/{study_id} answered 204 whose row is still in the store,
\* with deleted_at set
C20_Witness ==
    /\ last.op = "StudyDetail.delete"
    /\ last.status = 204
    /\ \E r \in studies : r.study_id = last.env.id /\ r.deleted_at # None

-----------------------------------------------------------------------------
(* Properties of the concurrent create handlers (SpecRace) *)

\* both workers have answered a create for the same key, and each passed its
\* existence check before either had inserted
Raced(w, v) ==
    /\ w # v
    /\ inflight[w].pc = "done" /\ inflight[v].pc = "done"
    /\ inflight[w].passed /\ inflight[v].passed
    /\ inflight[w].check_first /\ inflight[v].check_first
    /\ inflight[w].op = inflight[v].op
    /\ inflight[w].data = inflight[v].data

\* C17: when two create requests with the same unique key run concurrently
\* and both pass the existence check before either inserts, at most one row
\* with that key exists afterwards, exactly one request is answered 201, and
\* the other is answered 409.
C17_RaceLoserGets409 ==
    \A w, v \in Workers :
        Raced(w, v) =>
            /\ Cardinality({r \in committed_rows(inflight[w].op) :
                   unique_key(inflight[w].op, r)
                       = unique_key(inflight[w].op, inflight[w].data)}) <= 1
            /\ {inflight[w].status, inflight[v].status} = {201, 409}

-----------------------------------------------------------------------------
(* Properties of the provisioning done by the create endpoints (Spec) *)

\* the create request that just completed was answered 201 and Keycloak and
\* SONG served every call of it
ProvisionedOk(op, step_names) ==
    /\ Served(op)
    /\ last'.status = 201
    /\ last'.env.faults = AllOk(step_names)

\* the broker holds the resource, the umbrella group and the three
\* permission groups of the entity
HoldsEntityObjects(kind, key) ==
    /\ key \in kc_resources'
    /\ <<kind, "-">> \o key \in kc_groups'
    /\ \A permission \in Permissions :
           <<kind, "-">> \o key \o <<"-", permission>> \in kc_groups'

\* C21: after POST /projects or POST /studies returned 201 with every broker
\* call succeeding, the broker holds for that entity one resource, one
\* umbrella group ('project-<slug>' / 'study-<study_id>') and the three
\* permission groups '-read', '-write' and '-admin'.
C21_EntityObjectsProvisioned ==
    [][/\ ProvisionedOk("ProjectList.post", ProjectSteps)
          => HoldsEntityObjects("project", last'.env.data.slug)
       /\ ProvisionedOk("StudyList.post", StudySteps)
          => HoldsEntityObjects("study", last'.env.data.study_id)
      ]_vars

\* the user name the guard of the completed request put into g.user
Creator == DictGet(last'.guard.g_user, "username", "unknown")

\* C22: after POST /projects returned 201 with every broker call succeeding
\* and the creator known to the broker, the authenticated user of the request
\* is a member of project-<slug>-read, project-<slug>-write and
\* project-<slug>-admin.
C22_CreatorInAllGroups ==
    [][(/\ ProvisionedOk("ProjectList.post", ProjectSteps)
        /\ Creator \in KcUsers)
       => \A permission \in Permissions :
              <<project_group_name(last'.env.data.slug, permission), Creator>>
                  \in kc_members'
      ]_vars

\* a project created with every call served, its creator in the three groups
C22_Witness ==
    /\ last.op = "ProjectList.post"
    /\ last.status = 201
    /\ last.env.dbfault = "none"
    /\ last.env.faults = AllOk(ProjectSteps)
    /\ \A permission \in Permissions :
           <<project_group_name(last.env.data.slug, permission), "alice">>
               \in kc_members

WriteOps ==
    CreateOps
        \cup ((PathogenDetailOps \cup ProjectDetailOps \cup StudyDetailOps)
                 \ {"PathogenDetail.get", "ProjectDetail.get",
                    "StudyDetail.get"})

\* the handler of the request that just completed reached the store
\* operation that its environment makes fail
StoreOperationFailed ==
    /\ last'.op \in WriteOps
    /\ last'.ran
    /\ \E i \in 1..Len(calls') :
          calls'[i].sys = "db" /\ calls'[i].op = last'.env.dbfault

\* C23: a write request in which a store operation (the connect, the INSERT,
\* the UPDATE, the COMMIT) fails is answered 500, rolls the transaction back
\* when there is one, and leaves every row of the store as it was.
C23_StoreFailureIs500 ==
    [][StoreOperationFailed =>
          /\ last'.status = 500
          /\ UNCHANGED storeVars
          /\ last'.env.dbfault # "connect" =>
                \E i \in 1..Len(calls') : calls'[i] = DbCall("rollback", "")
      ]_vars

\* a PUT /pathogens/{id} whose UPDATE raised, the pathogen as it was
C23_Witness ==
    /\ last.op = "PathogenDetail.put"
    /\ last.env.dbfault = "update"
    /\ Issued(DbCall("update", "pathogens"))
    /\ last.status = 500
    /\ \E r \in pathogens : r.id = last.env.id /\ r.name # last.env.data.name

\* how many calls of the completed request are the given store call
CountDb(op) ==
    Cardinality({i \in 1..Len(calls) :
                    calls[i].sys = "db" /\ calls[i].op = op})

\* connections get_db_connection() handed to the handler and that were not
\* closed
OpenConnections ==
    (IF last.ran /\ last.env.dbfault = "connect" THEN 0 ELSE CountDb("connect"))
        - CountDb("close")

\* C24: every database connection a request handler acquired is closed when
\* the response is produced, on every exit path (success, 4xx early return,
\* exception): after every completed request no connection is open.
C24_NoOpenConnection == OpenConnections = 0

\* a DELETE /pathogens/{id} refused with 409, an early return inside the try
\* block, with its connection closed
C24_Witness ==
    /\ last.op = "PathogenDetail.delete"
    /\ last.status = 409
    /\ CountDb("connect") = 1
    /\ CountDb("close") = 1

-----------------------------------------------------------------------------
(* Properties of the guards under changing grants (SpecSession) *)

\* every required scope, in its namespaced form, is among the scopes of
\* 'folio' that Keycloak grants now
GrantedNow(required) ==
    \A i \in 1..Len(required) :
        \E scope \in kc_policy.granted :
            formatted_scope(required[i]) = <<"folio", ".">> \o scope

\* C25: the decision on a request with a bearer token follows the RPT
\* exchange of that request alone: it is let through exactly when Keycloak
\* grants every required scope at that moment, whatever earlier requests
\* were granted - denied once a scope is revoked, allowed once it is granted.
C25_DecisionFollowsCurrentGrants ==
    [][(last'.op \in RequirePermissionsOps /\ has_bearer(last'.header))
       => (last'.ran <=> GrantedNow(last'.required))
      ]_vars

\* a request denied for a scope that the user held and that was revoked
C25_Witness ==
    /\ last.op = "AuthTestWrite.get"
    /\ last.status = 403
    /\ <<"WRITE">> \in kc_policy.revoked
    /\ <<"READ">> \in kc_policy.granted

-----------------------------------------------------------------------------
(* Properties of the provisioning endpoints (SpecProvisioning) *)

\* C26: when the target already exists at the broker, POST
\* /projects/{slug}/resource, POST /projects/{slug}/group, POST
\* /studies/{id}/resource and POST /studies/{id}/group all answer 409.
C26_ExistingTargetIs409 ==
    /\ (/\ last.op = "ProjectResource.post" /\ last.ran
        /\ last.env.lookup = "ok" /\ last.env.fault = "ok"
        /\ last.env.key \in last.env.before.resources)
       => last.status = 409
    /\ (/\ last.op = "ProjectGroup.post" /\ last.ran
        /\ last.env.lookup = "ok" /\ last.env.fault = "ok"
        /\ <<"project", "-">> \o last.env.key \in last.env.before.groups)
       => last.status = 409
    /\ (/\ last.op = "StudyResource.post" /\ last.ran
        /\ last.env.lookup = "ok" /\ last.env.fault = "ok"
        /\ last.env.key \in last.env.before.resources)
       => last.status = 409
    /\ (/\ last.op = "StudyGroup.post" /\ last.ran
        /\ last.env.lookup = "ok" /\ last.env.fault = "ok"
        /\ <<"study", "-">> \o last.env.key \in last.env.before.groups)
       => last.status = 409

\* the step of setup_project_keycloak that adds the creator to the group of
\* a permission
MemberStep == [read |-> "m_read", write |-> "m_write", admin |-> "m_admin"]

\* the helper of the registration was called: its administrative call went
\* out, or its token exchange failed
RegistrationAttempted(call, fault) == Issued(call) \/ fault = "token_fail"

\* the registrations and group creations of the request were all attempted
CreationsAttempted ==
    /\ (last.op = "ProjectList.post" /\ RowInserted("projects")) =>
          /\ RegistrationAttempted(
                 KcCall("create_resource", last.env.data.slug),
                 last.env.faults["resource"])
          /\ \A p \in Permissions : last.steps[p] # None
    /\ (last.op = "StudyList.post" /\ RowInserted("studies")) =>
          /\ Issued(SongCall(last.env.data.study_id, last.guard.g_token))
          /\ RegistrationAttempted(
                 KcCall("create_resource", last.env.data.study_id),
                 last.env.faults["resource"])
          /\ RegistrationAttempted(
                 KcCall("create_group",
                        <<"study", "-">> \o last.env.data.study_id),
                 last.env.faults["group"])
          /\ \A p \in Permissions : last.steps[p] # None

\* C27 as claimed: in POST /projects and POST /studies each provisioning
\* step is attempted regardless of the outcome of the earlier steps: the
\* group creations after a failed resource registration, each permission
\* group after a failure of another, and the membership step for a group
\* after a failure of an earlier step.
C27_EveryStepAttempted ==
    /\ CreationsAttempted
    /\ (last.op = "ProjectList.post" /\ RowInserted("projects")) =>
          \A p \in Permissions : last.steps[MemberStep[p]] # None

\* C27: in POST /projects and POST /studies the resource registration and
\* every group creation is attempted whatever the earlier steps returned, and
\* the membership step of a group is attempted whatever the other steps
\* returned exactly when the creation of that group succeeded.
C27_StepsIndependent ==
    /\ CreationsAttempted
    /\ (last.op = "ProjectList.post" /\ RowInserted("projects")) =>
          \A p \in Permissions :
              PyTruthy(last.steps[p]) <=> last.steps[MemberStep[p]] # None

\* a project whose resource registration and read group failed, its write
\* group created and the creator's membership of it attempted and failed,
\* and the membership of the admin group added after that
C27_Witness ==
    /\ last.op = "ProjectList.post"
    /\ RowInserted("projects")
    /\ last.steps["resource"] = PyFalse
    /\ last.steps["read"] = PyFalse
    /\ last.steps["write"] = PyTrue
    /\ last.steps["m_write"] = PyFalse
    /\ last.steps["m_admin"] = PyTrue

\* a call that creates something downstream: the SONG registration, a
\* resource registration, a group creation, a membership add
IsCreation(call) ==
    \/ call.sys = "song"
    \/ /\ call.sys = "keycloak"
       /\ call.op \in {"create_resource", "create_group", "add_member"}

\* how often the completed request issued the call
TimesIssued(call) == Cardinality({i \in 1..Len(calls) : calls[i] = call})

\* C28: within one POST /projects or POST /studies request each outbound
\* provisioning call (SONG registration, resource registration, each group
\* creation, each membership add) is issued at most once; a call that failed
\* or timed out is not issued again in that request.
C28_NoRetry ==
    (last.op \in {"ProjectList.post", "StudyList.post"}) =>
        \A i \in 1..Len(calls) :
            IsCreation(calls[i]) => TimesIssued(calls[i]) = 1

\* a POST /studies whose creation of the read group failed, the call issued
\* once
C28_Witness ==
    /\ last.op = "StudyList.post"
    /\ RowInserted("studies")
    /\ last.env.faults["read"] = "call_fail"
    /\ TimesIssued(KcCall("create_group",
           study_group_name(last.env.data.study_id, "read"))) = 1

\* an administrative call against Keycloak: neither the RPT exchange of the
\* guard nor the client-credentials exchange itself
IsAdministrative(call) ==
    /\ call.sys = "keycloak"
    /\ call.op \notin {"rpt_exchange", "service_token"}

\* the second call of one helper invocation, sent with the token of the
\* first: the read-back of a created group, the GET of a listed resource
SameInvocation(prev, call) ==
    \/ prev.op = "create_group" /\ call.op = "get_group" /\ call.arg = prev.arg
    \/ prev.op = "list_resources" /\ call.op = "get_resource"

\* the step whose token exchange failed reported a failure and its
\* administrative call was not issued
TokenFailureStops(step, call) ==
    (last.env.faults[step] = "token_fail" /\ last.steps[step] # None)
        => (last.steps[step] = PyFalse /\ ~Issued(call))

DeleteOps ==
    {"PathogenDetail.delete", "ProjectDetail.delete", "StudyDetail.delete"}

\* C30: DELETE of a pathogen, project or study changes only the store: it
\* leaves every Keycloak resource, group and membership and SONG unchanged
\* and issues no administrative call.
C30_DeleteTouchesStoreOnly ==
    [][last'.op \in DeleteOps =>
          /\ UNCHANGED downstreamVars
          /\ \A i \in 1..Len(calls') : ~IsProvisioning(calls'[i])
      ]_vars

\* a project soft-deleted by DELETE, its resource, its groups and its
\* creator's memberships still at Keycloak
C30_Witness ==
    /\ last.op = "ProjectDetail.delete"
    /\ last.status = 204
    /\ \E r \in projects :
          /\ r.id = last.env.id
          /\ r.deleted_at # None
          /\ r.slug \in kc_resources
          /\ \A p \in Permissions :
                /\ project_group_name(r.slug, p) \in kc_groups
                /\ <<project_group_name(r.slug, p), "alice">> \in kc_members


-----------------------------------------------------------------------------
(* Updates: the row after a PUT or a PATCH *)

PutOps == {"PathogenDetail.put", "StudyDetail.put"}
PatchOps == {"PathogenDetail.patch", "ProjectDetail.patch"}

\* the table a handler updates, among the three given
TableOf(op, pathogen_rows, project_rows, study_rows) ==
    IF op \in {"PathogenDetail.put", "PathogenDetail.patch"}
    THEN pathogen_rows
    ELSE IF op = "ProjectDetail.patch" THEN project_rows ELSE study_rows

\* the rows the path of the request names
Target(op, rows, key) ==
    IF op = "StudyDetail.put" THEN {r \in rows : r.study_id = key}
    ELSE {r \in rows : r.id = key}

\* the columns a request body can set
Updatable(op) ==
    IF op \in {"PathogenDetail.put", "PathogenDetail.patch"}
    THEN {"name", "scientific_name", "description"}
    ELSE IF op = "ProjectDetail.patch"
    THEN {"name", "description", "pathogen_id"}
    ELSE {"name", "description", "project_id"}

\* a PATCH without any updatable field that reaches a row that is there
\* and not deleted is answered 400, and the table is as it was
EmptyPatchIs400 ==
    /\ last'.op \in PatchOps
    /\ last'.ran
    /\ last'.env.dbfault # "connect"
    /\ (DOMAIN last'.env.data) \cap Updatable(last'.op) = {}
    /\ Target(last'.op,
              not_deleted(TableOf(last'.op, pathogens, projects, studies)),
              last'.env.id) # {}
    => /\ last'.status = 400
       /\ UNCHANGED storeVars

\* the row a request leaves: the one its path names, after the request
RowOf(op, rows, key) == CHOOSE r \in Target(op, rows, key) : TRUE

UpdatedRowBefore ==
    RowOf(last'.op, TableOf(last'.op, pathogens, projects, studies),
          last'.env.id)

UpdatedRowAfter ==
    RowOf(last'.op, TableOf(last'.op, pathogens', projects', studies'),
          last'.env.id)

UpdateAnswered200 ==
    /\ last'.op \in PutOps \cup PatchOps
    /\ last'.ran
    /\ last'.status = 200

\* C31 as stated: every PUT or PATCH answered 200 sets updated_at to the time
\* of the request and leaves every column the body did not supply as it
\* was; a PATCH without an updatable field is answered 400 and changes
\* nothing
C31_UpdateChangesOnlySupplied ==
    [][/\ UpdateAnswered200 =>
            /\ UpdatedRowAfter.updated_at = last'.env.now
            /\ \A c \in (DOMAIN UpdatedRowBefore) \ {"updated_at"} :
                  c \notin DOMAIN last'.env.data
                      => UpdatedRowAfter[c] = UpdatedRowBefore[c]
       /\ EmptyPatchIs400
      ]_vars

\* the value a PUT or PATCH answered 200 leaves in a column: the supplied
\* one; without one, a PATCH keeps the column, and a PUT stores NULL in an
\* updatable column, except that a study keeps its project_id
ColumnAfter(op, data, old, c) ==
    IF c \in (DOMAIN data) \cap Updatable(op) THEN data[c]
    ELSE IF /\ op \in PutOps
            /\ c \in Updatable(op)
            /\ c # "project_id"
    THEN None
    ELSE old[c]

\* C31 (amended): every PUT or PATCH answered 200 sets updated_at to the
\* time of the request; a PATCH changes only the fields supplied, a PUT
\* also stores NULL in each optional field the body omits (a study keeps
\* its project_id); no other row changes; a PATCH without an updatable
\* field on a row that is there is answered 400 and changes nothing
C31_UpdateStampsAndAssigns ==
    [][/\ UpdateAnswered200 =>
            /\ UpdatedRowAfter.updated_at = last'.env.now
            /\ UpdatedRowAfter.updated_at > UpdatedRowBefore.updated_at
            /\ \A c \in (DOMAIN UpdatedRowBefore) \ {"updated_at"} :
                  UpdatedRowAfter[c]
                      = ColumnAfter(last'.op, last'.env.data,
                                    UpdatedRowBefore, c)
            /\ TableOf(last'.op, pathogens', projects', studies')
                   \ {UpdatedRowAfter}
               = TableOf(last'.op, pathogens, projects, studies)
                   \ {UpdatedRowBefore}
       /\ EmptyPatchIs400
      ]_vars

\* a PUT without a scientific_name was answered 200: the pathogen carries
\* the time of the request and has lost the scientific_name it had
C31_Witness ==
    /\ last.op = "PathogenDetail.put"
    /\ last.status = 200
    /\ "scientific_name" \notin DOMAIN last.env.data
    /\ \E r \in pathogens :
          /\ r.id = last.env.id
          /\ r.updated_at = last.env.now
          /\ r.id = 1
          /\ r.scientific_name = None

-----------------------------------------------------------------------------
(* Authorization and local decoding of the token *)

\* the headers a guard reads a token from
BearerHeaders == {h \in Headers : has_bearer(h)}

\* what the guard of an endpoint decides for a header and an exchange answer
GuardOf(op, required, header, resp) ==
    IF op = "AuthTest.get" THEN authenticate_token(header, resp)
    ELSE require_permissions(required, header, resp)

Undecodable(header) == ~jwt_decode(bearer_token(header)).ok

\* C32: for the exchange answer the last request received, the guard decides
\* the same (401, 403 or handler executed) for every other bearer token,
\* decodable or not; a request whose token cannot be decoded and whose
\* exchange lets it through runs its handler with username 'unknown'
C32_OutcomeIndependentOfDecoding ==
    last.op \in GuardOps /\ has_bearer(last.header) =>
        /\ \A h \in BearerHeaders :
              \E other \in {GuardOf(last.op, last.required, h, last.rpt)} :
                 /\ other.passed = last.guard.passed
                 /\ other.status = last.guard.status
        /\ last.ran = last.guard.passed
        /\ last.guard.passed /\ Undecodable(last.header) =>
              last.guard.g_user.username = "unknown"

\* the handler ran for a token that cannot be decoded
C32_Witness ==
    /\ last.op \in RequirePermissionsOps
    /\ last.required # <<>>
    /\ has_bearer(last.header)
    /\ Undecodable(last.header)
    /\ last.ran
    /\ last.guard.g_user.username = "unknown"

-----------------------------------------------------------------------------
(* The token of the metadata-service registration *)

SongCalls == {i \in 1..Len(calls) : calls[i].sys = "song"}

\* C33: every registration at the metadata service is issued by a POST
\* /studies whose guard passed, for the study_id of that request, and
\* carries the bearer token of that request's Authorization header, which
\* is the token the guard bound
C33_SongCallCarriesCallerToken ==
    \A i \in SongCalls :
        /\ last.op = "StudyList.post"
        /\ last.ran
        /\ last.guard.g_token = bearer_token(last.header)
        /\ calls[i] = SongCall(last.env.data.study_id,
                               bearer_token(last.header))

\* a study was registered for a caller whose token is the opaque one, after
\* an earlier request created the project
C33_Witness ==
    /\ SongCalls # {}
    /\ last.op = "StudyList.post"
    /\ bearer_token(last.header) = <<"opaque">>
    /\ last.status = 201
    /\ projects # {}

-----------------------------------------------------------------------------
(* POST /studies and the memberships of the broker's groups *)

\* C34: on every path of POST /studies the memberships at the broker are
\* the same after the request as before it, and the request issues no
\* membership call
C34_StudyPostAddsNoMember ==
    [][last'.op = "StudyList.post" =>
          /\ kc_members' = kc_members
          /\ \A i \in 1..Len(calls') :
                calls'[i].op \notin {"add_member", "find_user"}
      ]_vars

\* a study was created with its umbrella group and its three permission
\* groups, none of which has a member, while the project's groups have
C34_Witness ==
    /\ last.op = "StudyList.post"
    /\ last.status = 201
    /\ kc_members # {}
    /\ \A name \in {<<"study", "-">> \o last.env.data.study_id}
                   \cup {study_group_name(last.env.data.study_id, p) :
                            p \in Permissions} :
          /\ name \in kc_groups
          /\ \A m \in kc_members : m[1] # name

-----------------------------------------------------------------------------
(* Studies and the soft delete of their project *)

\* C35: no study that is not deleted references a project whose deleted_at
\* is set
C35_NoLiveStudyUnderDeletedProject ==
    \A s \in not_deleted(studies) :
    \A p \in projects :
        p.id = s.project_id => p.deleted_at = None

-----------------------------------------------------------------------------
(* A soft delete racing a create of a child *)

\* the create of worker v references the parent that worker w deletes
CreatesChildOf(v, w) ==
    \/ /\ inflight[w].op = "PathogenDetail.delete"
       /\ inflight[v].op = "ProjectList.post"
       /\ inflight[v].data.pathogen_id = inflight[w].data.id
    \/ /\ inflight[w].op = "ProjectDetail.delete"
       /\ inflight[v].op = "StudyList.post"
       /\ inflight[v].data.project_id = inflight[w].data.id

\* the committed row that the create of worker v left is not deleted
LiveChildOf(v) ==
    IF inflight[v].op = "ProjectList.post"
    THEN \E p \in not_deleted(projects) : p.slug = inflight[v].data.slug
    ELSE \E s \in not_deleted(studies) :
            s.study_id = inflight[v].data.study_id

\* C36: when a DELETE of a parent answered 204 and a create that was in
\* flight while the DELETE ran its checks answered 201 for a child of that
\* parent, the child is not left live under the soft-deleted parent
C36_NoLiveChildOfDeletedParent ==
    \A w \in Workers :
        /\ inflight[w].pc = "done"
        /\ inflight[w].op \in ParentDeleteOps
        /\ inflight[w].status = 204
        => \A v \in inflight[w].concurrent :
              /\ inflight[v].pc = "done"
              /\ inflight[v].status = 201
              /\ CreatesChildOf(v, w)
              => ~LiveChildOf(v)

-----------------------------------------------------------------------------
(* POST /studies answered 500 and the objects it created downstream *)

\* C37: a POST /studies that is answered 500 and leaves no study row has
\* created no study at the metadata service and no resource or group at the
\* broker
C37_RolledBackStudyLeavesNothingDownstream ==
    [][/\ last'.op = "StudyList.post"
       /\ last'.status = 500
       /\ studies' = studies
       => /\ song_studies' = song_studies
          /\ kc_resources' = kc_resources
          /\ kc_groups' = kc_groups
      ]_vars

-----------------------------------------------------------------------------
(* POST /projects: each membership add and the creation of its group *)

\* the membership helper was called for the permission: it asked for a
\* service token
MembershipCallsOf(permission) ==
    {i \in 1..Len(calls) :
        calls[i] \in
            {KcCall("find_group",
                    project_group_name(last.env.data.slug, permission)),
             KcCall("add_member",
                    project_group_name(last.env.data.slug, permission)
                        \o <<"/", last.guard.g_user.username>>)}}

MembershipAttempted(permission) ==
    \/ MembershipCallsOf(permission) # {}
    \/ /\ last.steps[MemberStep[permission]] = PyFalse
       /\ last.env.faults[MemberStep[permission]] = "token_fail"

\* C38: in a POST /projects that inserted its row, the creator's membership
\* of a permission group is attempted exactly when the creation call of that
\* group returned True (201 or 409); it succeeds exactly when, besides, its
\* own calls are served and the creator is a user of the realm, whatever
\* the other memberships did; and the answer is 201 in every case
C38_MembershipFollowsItsGroup ==
    last.op = "ProjectList.post" /\ RowInserted("projects") =>
        /\ last.status = 201
        /\ \A p \in Permissions :
              /\ MembershipAttempted(p) <=> last.steps[p] = PyTrue
              /\ last.steps[MemberStep[p]] = PyTrue
                    <=> /\ last.steps[p] = PyTrue
                        /\ last.env.faults[MemberStep[p]] = "ok"
                        /\ last.guard.g_user.username \in KcUsers

\* the read group's membership add failed at Keycloak, the write group
\* was not created and its membership not attempted, the admin group's
\* membership was added, and the answer is 201
C38_Witness ==
    /\ last.op = "ProjectList.post"
    /\ RowInserted("projects")
    /\ last.status = 201
    /\ last.steps["read"] = PyTrue
    /\ last.steps["m_read"] = PyFalse
    /\ MembershipCallsOf("read") # {}
    /\ last.steps["write"] = PyFalse
    /\ ~MembershipAttempted("write")
    /\ last.steps["m_admin"] = PyTrue
====
